---- MODULE Spec2Model ----
(***************************************************************************)
(* Model of the document index of monitoreoplus_dap: the CSV index         *)
(* (do_index.csv), the ingestion run procesar_diarios that moves rows to   *)
(* summary_ready, and the read side of backend_dap.py that selects the     *)
(* rows with a summary, orders the jurisdictions of the daily summary,     *)
(* assembles the context of a day, classifies a question and serves the    *)
(* routes; the runs of two ingestion processes, in series and overlapping, *)
(* with a reader of the index; the context of the news by topic; and the   *)
(* Google News worker that sends each alert of its feed to Telegram.       *)
(***************************************************************************)
EXTENDS Integers, Sequences, FiniteSets, TLC

\* ------------------------------------------------------------------------
\* Bounds of the model
\* ------------------------------------------------------------------------
MaxDocs == 2        \* rows of the index
MaxRuns == 2        \* runs of procesar_diarios in one behaviour

\* ------------------------------------------------------------------------
\* Cells, pandas and Python conversions
\* ------------------------------------------------------------------------
\* A CSV file holds text cells, "" being a blank cell.  pandas.read_csv
\* turns a blank cell into the float NaN; to_csv writes NaN as a blank.
NaN == "NaN"

LeerCelda(c) == IF c \in {"", "NaN"} THEN NaN ELSE c

EscribirCelda(v) == IF v = NaN THEN "" ELSE v

\* Python str(): str(float('nan')) is the three letters "nan".
PyStr(v) == IF v = NaN THEN "nan" ELSE v

\* Python isinstance(v, str)
EsStr(v) == v # NaN

\* str.strip() on the cell texts of the model
Strip(s) ==
    CASE s = " " -> ""
      [] s = " summary_ready " -> "summary_ready"
      [] OTHER -> s

\* str.lower() on the cell texts of the model
Lower(s) ==
    CASE s = "SUMMARY_READY" -> "summary_ready"
      [] s = "RAW" -> "raw"
      [] OTHER -> s

\* str.upper() on the jurisdiction names of the model
Upper(s) ==
    CASE s = "veracruz" -> "VERACRUZ"
      [] s = "puebla" -> "PUEBLA"
      [] s = "dof" -> "DOF"
      [] OTHER -> s

Columnas ==
    {"id", "fecha", "jurisdiccion", "pdf_path",
     "text_path", "summary_path", "status", "created_at"}

\* pd.read_csv / DataFrame.to_csv(index=False) on the whole index
LeerCsv(archivo) ==
    [i \in 1..Len(archivo) |-> [c \in Columnas |-> LeerCelda(archivo[i][c])]]

EscribirCsv(frame) ==
    [i \in 1..Len(frame) |-> [c \in Columnas |-> EscribirCelda(frame[i][c])]]

\* ------------------------------------------------------------------------
\* preprocesar_diarios.py
\* ------------------------------------------------------------------------
TEXT_BASE_DIR == "do_textos"
SUMMARY_BASE_DIR == "do_resumenes"

\* os.path.splitext(doc_id)[0]
BaseName(id) ==
    CASE id = "d1.pdf" -> "d1"
      [] id = "d2.pdf" -> "d2"
      [] id = "d3.pdf" -> "d3"
      [] id = "d4.pdf" -> "d4"
      [] OTHER -> id

ArchivoTexto(fila) ==
    TEXT_BASE_DIR \o "/" \o PyStr(fila.jurisdiccion) \o "/"
        \o BaseName(PyStr(fila.id)) \o ".txt"

ArchivoResumen(fila) ==
    SUMMARY_BASE_DIR \o "/" \o PyStr(fila.jurisdiccion) \o "/"
        \o BaseName(PyStr(fila.id)) \o "_resumen.txt"

\* What the collaborators of one loop iteration do, in the order the
\* iteration calls them: the first one that fails names the outcome.
Resultados ==
    {"ok", "extraer_lanza", "extraer_vacio", "mkdir_texto_lanza",
     "guardar_texto_lanza", "resumir_lanza", "mkdir_resumen_lanza",
     "guardar_resumen_lanza"}

\* failures that a try/except of the loop catches (followed by continue)
Atrapados ==
    {"extraer_lanza", "extraer_vacio", "guardar_texto_lanza",
     "resumir_lanza", "guardar_resumen_lanza"}

\* failures raised outside every try block of the loop
NoAtrapados == {"mkdir_texto_lanza", "mkdir_resumen_lanza"}

\* the guard of the loop: the row is skipped
YaProcesadoSinGuarda(fila) == FALSE

YaProcesado(fila) ==
    /\ Lower(Strip(PyStr(fila.status))) = "summary_ready"
    /\ EsStr(fila.summary_path)
    /\ Strip(fila.summary_path) # ""

\* the three assignments df.at[idx, ...] of a successful iteration
MarcarSoloStatus(fila) == [fila EXCEPT !.status = "summary_ready"]

MarcarYSellar(fila) ==
    [fila EXCEPT !.text_path = ArchivoTexto(fila),
                 !.summary_path = ArchivoResumen(fila),
                 !.status = "summary_ready",
                 !.created_at = "2026-01-02T00:00:00"]

Marcar(fila) ==
    [fila EXCEPT !.text_path = ArchivoTexto(fila),
                 !.summary_path = ArchivoResumen(fila),
                 !.status = "summary_ready"]

\* one iteration of the loop on a row that is not skipped:
\* the row it leaves in the frame and whether the loop goes on
IterarParcial(fila, res) ==
    IF res = "ok"
      THEN [fila |-> Marcar(fila), sigue |-> TRUE]
      ELSE IF res = "guardar_resumen_lanza"
        THEN [fila |-> [fila EXCEPT !.text_path = ArchivoTexto(fila)],
              sigue |-> TRUE]
        ELSE [fila |-> fila, sigue |-> res \in Atrapados]

IterarRetrocede(fila, res) ==
    IF res = "ok"
      THEN [fila |-> Marcar(fila), sigue |-> TRUE]
      ELSE [fila |-> [fila EXCEPT !.status = "raw"],
            sigue |-> res \in Atrapados]

IterarCortaEnExtraccion(fila, res) ==
    IF res = "ok"
      THEN [fila |-> Marcar(fila), sigue |-> TRUE]
      ELSE [fila |-> fila,
            sigue |-> res \in (Atrapados \ {"extraer_lanza"})]

Iterar(fila, res) ==
    IF res = "ok"
      THEN [fila |-> Marcar(fila), sigue |-> TRUE]
      ELSE [fila |-> fila, sigue |-> res \in Atrapados]

\* the files an iteration leaves: the text file once extraction and the
\* text directory succeeded and the write did, the summary file after the
\* last step
TextoDe(fila) == "texto " \o BaseName(PyStr(fila.id))

ResumenDe(fila) == "- " \o BaseName(PyStr(fila.id))

SinArchivos == [p \in {} |-> ""]

EscribirArchivos(fs, fila, res) ==
    LET conTexto ==
            IF res \in {"ok", "resumir_lanza", "mkdir_resumen_lanza",
                        "guardar_resumen_lanza"}
              THEN (ArchivoTexto(fila) :> TextoDe(fila)) @@ fs
              ELSE fs
    IN  IF res = "ok"
          THEN (ArchivoResumen(fila) :> ResumenDe(fila)) @@ conTexto
          ELSE conTexto

\* the loop body never opens DO_INDEX_CSV: the file after an iteration is
\* the file before it, whatever the frame holds
IndiceTrasIteracionPorFila(archivo, frame) == EscribirCsv(frame)

IndiceTrasIteracion(archivo, frame) == archivo

VARIABLES
    disk,        \* do_index.csv: the persisted index, a sequence of rows
    df,          \* the DataFrame of the run in progress
    pc,          \* "idle" or "loop"
    idx,         \* the row the loop is at
    runs,        \* runs started so far
    fin,         \* how the last run ended: "none", "ok", "excepcion"
    resultado,   \* the collaborators' outcome for each row attempted,
                 \* "none" for a row not attempted
    mismo,       \* the collaborators behave in this run as in the one before
    disk0,       \* the index as read at the start of the run
    index0,      \* the index before the first run
    escrituras,  \* writes of the index file made by the run
    intentados,  \* rows the run has attempted (not skipped)
    trans,       \* rows the run has marked summary_ready in the frame
    archivos,    \* the text and summary files: path :> content
    consulta,    \* the last request made to the read side
    resp,        \* and what it returned
    estadoIndice,\* do_index.csv is "legible", "ausente" (no such file)
                 \* or "sin_columna" (a required column is missing)
    noticias,    \* noticias_dap.csv: [estado, filas]
    corridas,    \* the processes that run procesar_diarios on one index:
                 \* for each its position, its DataFrame and what it read
    enEscritura, \* summary files opened with "w" and not yet written
    solape,      \* a run has started while another one was in its loop
    perdidas,    \* rows a write committed as summary_ready and a later
                 \* write took back
    seen_ids,    \* the worker's set seen_ids
    seen_file,   \* the lines of SEEN_FILE
    pendientes,  \* the entries procesar_feed has still to visit
    ciclos,      \* calls of procesar_feed so far
    reinicios,   \* restarts of the worker so far
    entregas,    \* for each entry id, the alerts Telegram has delivered
    exitos,      \* and the calls of telegram_send_message that returned
    reenviados   \* ids sent while they were in seen_ids

vars ==
    <<disk, df, pc, idx, runs, fin, resultado, mismo, disk0, index0,
      escrituras, intentados, trans, archivos, consulta, resp,
      estadoIndice, noticias, corridas, enEscritura, solape, perdidas,
      seen_ids, seen_file, pendientes, ciclos, reinicios, entregas, exitos,
      reenviados>>

\* the state of a run, which the read side leaves alone
varsRun ==
    <<df, pc, idx, runs, fin, resultado, mismo, disk0, index0,
      escrituras, intentados, trans>>

\* the two CSV files as the operating system shows them
varsAlmacen == <<estadoIndice, noticias>>

\* the concurrent runs of procesar_diarios
varsIngesta == <<corridas, enEscritura, solape, perdidas>>

\* google_news_worker_dap_sarampion.py
varsWorker ==
    <<seen_ids, seen_file, pendientes, ciclos, reinicios, entregas, exitos,
      reenviados>>

varsOtros == <<varsIngesta, varsWorker>>

\* the processes of the concurrent runs, none of them started
Corridas == {"A", "B"}

EnReposo ==
    [pc |-> "idle", df |-> <<>>, idx |-> 1, leido |-> <<>>, marcadas |-> {}]

\* the ids of the entries of the feed
IdsEntrada == {"e1", "e2"}

\* no run is in progress and the worker has just been installed
InitOtros ==
    /\ corridas = [p \in Corridas |-> EnReposo]
    /\ enEscritura = {}
    /\ solape = FALSE
    /\ perdidas = {}
    /\ seen_ids = {}
    /\ seen_file = <<>>
    /\ pendientes = <<>>
    /\ ciclos = 0
    /\ reinicios = 0
    /\ entregas = [e \in IdsEntrada |-> 0]
    /\ exitos = [e \in IdsEntrada |-> 0]
    /\ reenviados = {}

\* ------------------------------------------------------------------------
\* Initial index
\* ------------------------------------------------------------------------
IdDe(i) ==
    CASE i = 1 -> "d1.pdf" [] i = 2 -> "d2.pdf" [] i = 3 -> "d3.pdf"
      [] OTHER -> "d4.pdf"

JurDe(i) == IF i % 2 = 1 THEN "DOF" ELSE "VERACRUZ"

\* (status, text_path, summary_path) of a row of an index on disk:
\* a new row, a processed row, a legacy row without status, and a row
\* marked summary_ready whose summary was never recorded
Plantillas == {"nueva", "lista", "legado", "lista_sin_resumen"}

FilaBase(i) ==
    [id |-> IdDe(i), fecha |-> "2026-01-01", jurisdiccion |-> JurDe(i),
     pdf_path |-> "pdfs", text_path |-> "", summary_path |-> "",
     status |-> "raw", created_at |-> "2026-01-01T00:00:00"]

FilaInicial(i, p) ==
    CASE p = "nueva" -> FilaBase(i)
      [] p = "lista" ->
           [FilaBase(i) EXCEPT !.text_path = ArchivoTexto(FilaBase(i)),
                               !.summary_path = ArchivoResumen(FilaBase(i)),
                               !.status = "summary_ready"]
      [] p = "legado" ->
           [FilaBase(i) EXCEPT !.summary_path = ArchivoResumen(FilaBase(i)),
                               !.status = ""]
      [] OTHER -> [FilaBase(i) EXCEPT !.status = "summary_ready"]

IndicesIniciales ==
    UNION {{[i \in 1..n |-> FilaInicial(i, ps[i])] : ps \in [1..n -> Plantillas]}
           : n \in 1..MaxDocs}

\* the files the paths of an index name, each holding its document's text
RECURSIVE ArchivosHasta(_, _)
ArchivosHasta(indice, n) ==
    IF n = 0 THEN SinArchivos
    ELSE LET f == indice[n]
             resto == ArchivosHasta(indice, n - 1)
             conT == IF f.text_path # ""
                       THEN (f.text_path :> TextoDe(f)) @@ resto ELSE resto
         IN  IF f.summary_path # ""
               THEN (f.summary_path :> ResumenDe(f)) @@ conT ELSE conT

ArchivosDe(indice) == ArchivosHasta(indice, Len(indice))

\* a news file with its columns and no rows
SinNoticias == [estado |-> "legible", filas |-> <<>>]

SinConsulta == [op |-> "none"]
SinRespuesta == [op |-> "none"]

Init ==
    /\ disk \in IndicesIniciales
    /\ index0 = disk
    /\ disk0 = disk
    /\ df = <<>>
    /\ pc = "idle"
    /\ idx = 1
    /\ runs = 0
    /\ fin = "none"
    /\ resultado = [i \in 1..Len(disk) |-> "none"]
    /\ mismo = FALSE
    /\ escrituras = 0
    /\ intentados = {}
    /\ trans = {}
    /\ archivos = ArchivosDe(disk)
    /\ consulta = SinConsulta
    /\ resp = SinRespuesta
    /\ estadoIndice = "legible"
    /\ noticias = SinNoticias
    /\ InitOtros

\* ------------------------------------------------------------------------
\* procesar_diarios, one step per loop iteration
\* ------------------------------------------------------------------------
\* the file exists and has the expected columns: read it and enter the loop
Iniciar ==
    /\ pc = "idle"
    /\ runs < MaxRuns
    /\ df' = LeerCsv(disk)
    /\ disk0' = disk
    /\ \E m \in BOOLEAN :
          /\ m => runs >= 1
          /\ mismo' = m
          /\ resultado' = IF m THEN resultado
                               ELSE [i \in 1..Len(disk) |-> "none"]
    /\ pc' = "loop"
    /\ idx' = 1
    /\ runs' = runs + 1
    /\ fin' = "none"
    /\ escrituras' = 0
    /\ intentados' = {}
    /\ trans' = {}
    /\ UNCHANGED <<disk, index0, archivos, consulta, resp, varsAlmacen, varsOtros>>

\* the collaborators' outcome for the row at idx: any, unless the run
\* repeats the outcomes of the run before and the row was attempted then
Repite(res) == resultado[idx] \in {"none", res}

\* the row is already processed: continue
Saltar ==
    /\ pc = "loop"
    /\ idx <= Len(df)
    /\ YaProcesado(df[idx])
    /\ idx' = idx + 1
    /\ UNCHANGED <<disk, df, pc, runs, fin, resultado, mismo, disk0, index0,
                   escrituras, intentados, trans, archivos, consulta, resp,
                   varsAlmacen, varsOtros>>

\* the row is processed: its outcome is caught, or every step succeeds
Procesar ==
    /\ pc = "loop"
    /\ idx <= Len(df)
    /\ ~YaProcesado(df[idx])
    /\ \E res \in Resultados :
          /\ Repite(res)
          /\ Iterar(df[idx], res).sigue
          /\ resultado' = [resultado EXCEPT ![idx] = res]
          /\ df' = [df EXCEPT ![idx] = Iterar(df[idx], res).fila]
          /\ trans' = IF res = "ok" THEN trans \cup {idx} ELSE trans
          /\ archivos' = EscribirArchivos(archivos, df[idx], res)
    /\ intentados' = intentados \cup {idx}
    /\ idx' = idx + 1
    /\ disk' = IndiceTrasIteracion(disk, df')
    /\ UNCHANGED <<pc, runs, fin, mismo, disk0, index0, escrituras,
                   consulta, resp, varsAlmacen, varsOtros>>

\* an exception leaves the loop and procesar_diarios: nothing is written
Abortar ==
    /\ pc = "loop"
    /\ idx <= Len(df)
    /\ ~YaProcesado(df[idx])
    /\ \E res \in Resultados :
          /\ Repite(res)
          /\ ~Iterar(df[idx], res).sigue
          /\ resultado' = [resultado EXCEPT ![idx] = res]
          /\ df' = [df EXCEPT ![idx] = Iterar(df[idx], res).fila]
          /\ archivos' = EscribirArchivos(archivos, df[idx], res)
    /\ intentados' = intentados \cup {idx}
    /\ pc' = "idle"
    /\ fin' = "excepcion"
    /\ UNCHANGED <<disk, idx, runs, mismo, disk0, index0, escrituras,
                   trans, consulta, resp, varsAlmacen, varsOtros>>

\* after the last row: df.to_csv(DO_INDEX_CSV, index=False)
Guardar ==
    /\ pc = "loop"
    /\ idx > Len(df)
    /\ disk' = EscribirCsv(df)
    /\ escrituras' = escrituras + 1
    /\ pc' = "idle"
    /\ fin' = "ok"
    /\ UNCHANGED <<df, idx, runs, resultado, mismo, disk0, index0,
                   intentados, trans, archivos, consulta, resp, varsAlmacen, varsOtros>>

Next == Iniciar \/ Saltar \/ Procesar \/ Abortar \/ Guardar

Spec == Init /\ [][Next]_vars

\* ------------------------------------------------------------------------
\* backend_dap.py: the read side of the index
\* ------------------------------------------------------------------------
\* pd.to_datetime(df["fecha"], errors="coerce").dt.date: a date, counted
\* in days, or NaT for a cell that holds no date
NaT == 0

ParseFecha(v) ==
    CASE v = "2026-01-01" -> 1
      [] v = "2026-01-02" -> 2
      [] v = "2026-01-03" -> 3
      [] OTHER -> NaT

\* datetime.strptime(fecha_str, "%Y-%m-%d").date() and date.strftime
Strptime(t) == ParseFecha(t)

Strftime(d) ==
    CASE d = 1 -> "2026-01-01"
      [] d = 2 -> "2026-01-02"
      [] OTHER -> "2026-01-03"

\* the order of Python strings on the names of the model
Rango(t) ==
    CASE t = "CDMX" -> 1
      [] t = "DOF" -> 2
      [] t = "PUEBLA" -> 3
      [] t = "SONORA" -> 4
      [] t = "VERACRUZ" -> 5
      [] t = "dof" -> 6
      [] t = "nan" -> 7
      [] t = "puebla" -> 8
      [] OTHER -> 9

\* sorted(S) for a set of strings and for a set of dates, as sequences
RECURSIVE OrdenarCadenas(_)
OrdenarCadenas(S) ==
    IF S = {} THEN <<>>
    ELSE LET m == CHOOSE x \in S : \A y \in S : Rango(x) <= Rango(y)
         IN  <<m>> \o OrdenarCadenas(S \ {m})

RECURSIVE OrdenarDesc(_)
OrdenarDesc(S) ==
    IF S = {} THEN <<>>
    ELSE LET m == CHOOSE x \in S : \A y \in S : x >= y
         IN  <<m>> \o OrdenarDesc(S \ {m})

Maximo(S) == CHOOSE x \in S : \A y \in S : x >= y

Elementos(sq) == {sq[i] : i \in 1..Len(sq)}

\* tiene_resumen(row), the same function in cargar_diarios_por_fecha,
\* obtener_ultima_fecha_diarios, do_fechas and do_jurisdicciones
TieneResumen(row) ==
    LET status == Lower(Strip(PyStr(row.status)))
        summary_path == Strip(PyStr(row.summary_path))
    IN  summary_path # "" /\ (status = "summary_ready" \/ status = "")

\* df[df.apply(tiene_resumen, axis=1)]
ConResumen(frame) == SelectSeq(frame, TieneResumen)

\* cargar_diarios_por_fecha(fecha_str): the rows of the day with a summary
CargarDiarios(archivo, fecha_str) ==
    LET frame == LeerCsv(archivo)
        fecha_obj == Strptime(fecha_str)
        EsDelDia(row) == ParseFecha(row.fecha) = fecha_obj
        df_dia == SelectSeq(frame, EsDelDia)
    IN  IF df_dia = <<>> THEN df_dia ELSE ConResumen(df_dia)

\* df["fecha_parsed"].dropna().unique()
FechasDe(frame) ==
    {ParseFecha(frame[i].fecha) : i \in 1..Len(frame)} \ {NaT}

\* obtener_ultima_fecha_diarios(): the latest date with a summary, or None
UltimaFechaDiarios(archivo) ==
    LET fechas == FechasDe(ConResumen(LeerCsv(archivo)))
    IN  IF fechas = {} THEN "None" ELSE Strftime(Maximo(fechas))

\* /do_fechas: the dates with a summary, latest first
FechasDisponibles(archivo) ==
    LET frame == ConResumen(LeerCsv(archivo))
        ordenadas == OrdenarDesc(FechasDe(frame))
    IN  [i \in 1..Len(ordenadas) |-> Strftime(ordenadas[i])]

\* /do_jurisdicciones: the jurisdictions with a summary, in upper case,
\* sorted, of one date when the request names it
JurisdiccionesDisponibles(archivo, fecha_str) ==
    LET frame == ConResumen(LeerCsv(archivo))
        EsDelDia(row) == ParseFecha(row.fecha) = Strptime(fecha_str)
        delDia == IF fecha_str = "" THEN frame ELSE SelectSeq(frame, EsDelDia)
    IN  OrdenarCadenas({Upper(PyStr(delDia[i].jurisdiccion)) :
                          i \in 1..Len(delDia)})

\* the dates a request can name
FechasConsulta == {"2026-01-01", "2026-01-02"}

\* the index files of the read side: rows of any date cell, status cell
\* and summary_path cell
CeldasFecha == {"2026-01-01", "2026-01-02", "sin fecha"}
CeldasStatus == {"raw", "summary_ready", "", "SUMMARY_READY"}
CeldasResumen == {"", "resumen"}

FilaLectura(i, f, st, sp) ==
    [FilaBase(i) EXCEPT !.fecha = f, !.status = st,
                        !.summary_path =
                            IF sp = "" THEN "" ELSE ArchivoResumen(FilaBase(i))]

IndicesLectura ==
    UNION {{[i \in 1..n |-> FilaLectura(i, fs[i], sts[i], sps[i])] :
              fs \in [1..n -> CeldasFecha], sts \in [1..n -> CeldasStatus],
              sps \in [1..n -> CeldasResumen]}
           : n \in 1..MaxDocs}

InitLectura ==
    /\ disk \in IndicesLectura
    /\ index0 = disk
    /\ disk0 = disk
    /\ df = <<>>
    /\ pc = "idle"
    /\ idx = 1
    /\ runs = 0
    /\ fin = "none"
    /\ resultado = [i \in 1..Len(disk) |-> "none"]
    /\ mismo = FALSE
    /\ escrituras = 0
    /\ intentados = {}
    /\ trans = {}
    /\ archivos = ArchivosDe(disk)
    /\ consulta = SinConsulta
    /\ resp = SinRespuesta
    /\ estadoIndice = "legible"
    /\ noticias = SinNoticias
    /\ InitOtros

CargarDiariosPorFecha ==
    \E f \in FechasConsulta :
        /\ consulta' = [op |-> "cargar_diarios_por_fecha", fecha |-> f]
        /\ resp' = [op |-> "cargar_diarios_por_fecha",
                    filas |-> CargarDiarios(disk, f)]
        /\ UNCHANGED <<disk, archivos, varsRun, varsAlmacen, varsOtros>>

ObtenerUltimaFechaDiarios ==
    /\ consulta' = [op |-> "obtener_ultima_fecha_diarios"]
    /\ resp' = [op |-> "obtener_ultima_fecha_diarios",
                fecha |-> UltimaFechaDiarios(disk)]
    /\ UNCHANGED <<disk, archivos, varsRun, varsAlmacen, varsOtros>>

\* GET /do_fechas, with or without ?jurisdiccion=: the route reads no
\* argument of the request
DoFechas ==
    \E j \in {"", "DOF"} :
        /\ consulta' = [op |-> "do_fechas", jurisdiccion |-> j]
        /\ resp' = [op |-> "do_fechas", fechas |-> FechasDisponibles(disk)]
        /\ UNCHANGED <<disk, archivos, varsRun, varsAlmacen, varsOtros>>

DoJurisdicciones ==
    \E f \in FechasConsulta \cup {""} :
        /\ consulta' = [op |-> "do_jurisdicciones", fecha |-> f]
        /\ resp' = [op |-> "do_jurisdicciones",
                    jurisdicciones |-> JurisdiccionesDisponibles(disk, f)]
        /\ UNCHANGED <<disk, archivos, varsRun, varsAlmacen, varsOtros>>

NextLectura ==
    \/ CargarDiariosPorFecha
    \/ ObtenerUltimaFechaDiarios
    \/ DoFechas
    \/ DoJurisdicciones

SpecLectura == InitLectura /\ [][NextLectura]_vars

\* A row of the index file is usable when its summary_path cell is not
\* empty and its status cell is summary_ready or empty
CeldaVacia(c) == Strip(c) = ""

Usable(f) ==
    /\ ~CeldaVacia(f.summary_path)
    /\ (Lower(Strip(f.status)) = "summary_ready" \/ CeldaVacia(f.status))

\* the rows of the index file that stand behind the rows of a frame
FilasDeArchivo(frame) ==
    {disk[i] : i \in {j \in 1..Len(disk) :
                        \E k \in 1..Len(frame) : frame[k].id = disk[j].id}}

\* C4: cargar_diarios_por_fecha(D) returns only rows whose date is D and
\* whose status is summary_ready, or empty with a summary_path; it never
\* returns a row whose status is raw or whose summary_path is empty.
C4_SoloUsablesDelDia ==
    resp.op = "cargar_diarios_por_fecha" =>
        \A f \in FilasDeArchivo(resp.filas) :
            /\ ParseFecha(f.fecha) = Strptime(consulta.fecha)
            /\ \/ Lower(Strip(f.status)) = "summary_ready"
               \/ CeldaVacia(f.status) /\ ~CeldaVacia(f.summary_path)
            /\ Lower(Strip(f.status)) # "raw"
            /\ ~CeldaVacia(f.summary_path)

\* C5: the rows the read side keeps are exactly the usable rows of the
\* file: load-by-date returns all and only the usable rows of the day, and
\* the dates and jurisdictions listed are those of the usable rows.
C5_PredicadoUsable ==
    /\ resp.op = "cargar_diarios_por_fecha" =>
          FilasDeArchivo(resp.filas) =
              {disk[i] : i \in {j \in 1..Len(disk) :
                  /\ ParseFecha(disk[j].fecha) = Strptime(consulta.fecha)
                  /\ Usable(disk[j])}}
    /\ resp.op = "do_fechas" =>
          Elementos(resp.fechas) =
              {Strftime(ParseFecha(disk[i].fecha)) :
                  i \in {j \in 1..Len(disk) :
                      Usable(disk[j]) /\ ParseFecha(disk[j].fecha) # NaT}}

\* ------------------------------------------------------------------------
\* backend_dap.py: the daily summary by jurisdiction
\* ------------------------------------------------------------------------
ORDEN_JURISDICCIONES == <<"DOF", "SONORA", "VERACRUZ", "CDMX">>

\* int(os.getenv("DO_MAX_CHARS_RESUMENES", "24000"))
MaxCharsPorJurisdiccion == 24000

Min(a, b) == IF a <= b THEN a ELSE b

\* "\n\n".join(textos)
RECURSIVE Unir(_)
Unir(textos) ==
    IF textos = <<>> THEN ""
    ELSE IF Len(textos) = 1 THEN textos[1]
    ELSE textos[1] \o "\n\n" \o Unir(Tail(textos))

\* the content of a file that exists and whose open() or read() raises
Ilegible == "<open o read lanza>"

\* the texts of one group of construir_contexto_diarios_por_jurisdiccion:
\* the summaries of its rows that exist, can be read and are not blank, in
\* row order
RECURSIVE TextosDeEstricto(_, _, _)
TextosDeEstricto(df_dia, fs, jur) ==
    IF df_dia = <<>> THEN <<>>
    ELSE LET row == Head(df_dia)
             ruta == Strip(PyStr(row.summary_path))
             resto == TextosDeEstricto(Tail(df_dia), fs, jur)
         IN  IF PyStr(row.jurisdiccion) # jur \/ ruta = "" THEN resto
             ELSE IF ruta \notin DOMAIN fs \/ fs[ruta] = Ilegible THEN <<>>
             ELSE IF Strip(fs[ruta]) # "" THEN <<Strip(fs[ruta])>> \o resto
             ELSE resto

RECURSIVE TextosDe(_, _, _)
TextosDe(df_dia, fs, jur) ==
    IF df_dia = <<>> THEN <<>>
    ELSE LET row == Head(df_dia)
             ruta == Strip(PyStr(row.summary_path))
             resto == TextosDe(Tail(df_dia), fs, jur)
         IN  IF /\ PyStr(row.jurisdiccion) = jur
                /\ ruta # ""
                /\ ruta \in DOMAIN fs
                /\ fs[ruta] # Ilegible
                /\ Strip(fs[ruta]) # ""
               THEN <<Strip(fs[ruta])>> \o resto
               ELSE resto

\* texto_concatenado[:max_chars_por_jurisdiccion], for a limit >= 0
RecortarPorElFinal(texto, max_chars) ==
    SubSeq(texto, Len(texto) - Min(Len(texto), max_chars) + 1, Len(texto))

Recortar(texto, max_chars) ==
    SubSeq(texto, 1, Min(Len(texto), max_chars))

\* construir_contexto_diarios_por_jurisdiccion(df_dia) when the variable
\* DO_MAX_CHARS_RESUMENES holds max_chars: the dict {jurisdiccion: text},
\* as the sequence of its items in insertion order, which is the sorted
\* order of groupby
ConstruirContextoCon(df_dia, fs, max_chars) ==
    LET claves ==
            OrdenarCadenas({PyStr(df_dia[i].jurisdiccion) : i \in 1..Len(df_dia)})
        Item(j) ==
            [jur |-> j,
             texto |-> Recortar(Unir(TextosDe(df_dia, fs, j)), max_chars)]
        TieneTextos(j) == TextosDe(df_dia, fs, j) # <<>>
        conTextos == SelectSeq(claves, TieneTextos)
    IN  [i \in 1..Len(conTextos) |-> Item(conTextos[i])]

\* the same with the variable unset
ConstruirContexto(df_dia, fs) ==
    ConstruirContextoCon(df_dia, fs, MaxCharsPorJurisdiccion)

Claves(contexto) == [i \in 1..Len(contexto) |-> contexto[i].jur]

\* contexto_por_jur.get(j): the text, or "" for None
Obtener(contexto, j) ==
    IF \E i \in 1..Len(contexto) : contexto[i].jur = j
      THEN (CHOOSE it \in Elementos(contexto) : it.jur = j).texto
      ELSE ""

\* the second loop of the ordering: the keys in upper case, not yet added
RECURSIVE AgregarExtras(_, _)
AgregarExtras(lista, claves) ==
    IF claves = <<>> THEN lista
    ELSE LET j_up == Upper(Head(claves))
         IN  IF j_up \in Elementos(lista)
               THEN AgregarExtras(lista, Tail(claves))
               ELSE AgregarExtras(Append(lista, j_up), Tail(claves))

\* jurisdicciones_a_procesar without a filter
OrdenarJurisdicciones(claves) ==
    LET EnContexto(j) == j \in Elementos(claves)
        fijas == SelectSeq(ORDEN_JURISDICCIONES, EnContexto)
    IN  AgregarExtras(fijas, claves)

\* the loop over jurisdicciones_a_procesar: the jurisdictions whose
\* context is sent to the model, and the blocks of the final text
RECURSIVE Enviadas(_, _)
Enviadas(lista, contexto) ==
    IF lista = <<>> THEN <<>>
    ELSE IF Obtener(contexto, Head(lista)) = ""
           THEN Enviadas(Tail(lista), contexto)
           ELSE <<Head(lista)>> \o Enviadas(Tail(lista), contexto)

\* completion.choices[0].message.content.strip(): blank for the
\* jurisdictions of `mudas`
Completar(j, mudas) == IF j \in mudas THEN "" ELSE "- " \o j

RECURSIVE Bloques(_, _)
Bloques(enviadas, mudas) ==
    IF enviadas = <<>> THEN <<>>
    ELSE LET j == Head(enviadas)
             resto == Bloques(Tail(enviadas), mudas)
         IN  IF Completar(j, mudas) = "" THEN resto
             ELSE <<[encabezado |-> Upper(j), texto |-> Completar(j, mudas)]>>
                     \o resto

\* "\n".join(resumen_final_lineas).strip()
RECURSIVE TextoFinal(_)
TextoFinal(bloques) ==
    IF bloques = <<>> THEN ""
    ELSE LET b == Head(bloques)
             cabeza == b.encabezado \o "\n" \o b.texto
         IN  IF Len(bloques) = 1 THEN cabeza
             ELSE cabeza \o "\n\n" \o TextoFinal(Tail(bloques))

\* the result of generar_resumen_diarios when there is nothing to summarize
SinResumenSinError(fecha_str, mensaje) ==
    [op |-> "generar_resumen_diarios", fecha |-> fecha_str, resumen |-> "",
     error |-> "", a_procesar |-> <<>>, enviadas |-> <<>>]

SinResumen(fecha_str, mensaje) ==
    [op |-> "generar_resumen_diarios", fecha |-> fecha_str, resumen |-> "",
     error |-> mensaje, a_procesar |-> <<>>, enviadas |-> <<>>]

\* generar_resumen_diarios(fecha_str, jurisdiccion_filtro)
GenerarResumen(archivo, fs, fecha_str, filtro, mudas) ==
    LET df_dia == CargarDiarios(archivo, fecha_str)
        contexto == ConstruirContexto(df_dia, fs)
        filtro_norm == Upper(Strip(filtro))
        lista == IF filtro # "" THEN <<filtro_norm>>
                 ELSE OrdenarJurisdicciones(Claves(contexto))
        enviadas == Enviadas(lista, contexto)
        texto == TextoFinal(Bloques(enviadas, mudas))
    IN  IF df_dia = <<>>
          THEN SinResumen(fecha_str, "No hay diarios oficiales para esa fecha")
        ELSE IF contexto = <<>>
          THEN SinResumen(fecha_str,
                 "No hay resumenes normativos disponibles para esa fecha")
        ELSE IF filtro # "" /\ filtro_norm \notin Elementos(Claves(contexto))
          THEN SinResumen(fecha_str,
                 "No hay diarios para la jurisdiccion en esa fecha")
        ELSE IF texto = ""
          THEN [SinResumen(fecha_str,
                  "No se genero contenido normativo relevante para esa fecha")
                EXCEPT !.a_procesar = lista, !.enviadas = enviadas]
        ELSE [op |-> "generar_resumen_diarios", fecha |-> fecha_str,
              resumen |-> texto, error |-> "", a_procesar |-> lista,
              enviadas |-> enviadas]

\* the indexes of the daily summary: rows with a summary, the jurisdiction
\* cell as the index stores it
MaxJur == 3

CeldasJurisdiccion == {"DOF", "VERACRUZ", "CDMX", "PUEBLA", "veracruz"}

FilaResumen(i, j) ==
    LET f == [FilaBase(i) EXCEPT !.jurisdiccion = j]
    IN  [f EXCEPT !.text_path = ArchivoTexto(f),
                  !.summary_path = ArchivoResumen(f),
                  !.status = "summary_ready"]

IndicesResumen ==
    UNION {{[i \in 1..n |-> FilaResumen(i, js[i])] :
              js \in [1..n -> CeldasJurisdiccion]}
           : n \in 1..MaxJur}

\* the files of the rows in `presentes`; the other summaries are missing
ArchivosPresentes(indice, presentes) ==
    LET todos == ArchivosDe(indice)
        rutas == {indice[i].summary_path : i \in presentes}
    IN  [p \in rutas |-> todos[p]]

InitResumen ==
    /\ disk \in IndicesResumen
    /\ index0 = disk
    /\ disk0 = disk
    /\ df = <<>>
    /\ pc = "idle"
    /\ idx = 1
    /\ runs = 0
    /\ fin = "none"
    /\ resultado = [i \in 1..Len(disk) |-> "none"]
    /\ mismo = FALSE
    /\ escrituras = 0
    /\ intentados = {}
    /\ trans = {}
    /\ \E presentes \in SUBSET (1..Len(disk)) :
          archivos = ArchivosPresentes(disk, presentes)
    /\ consulta = SinConsulta
    /\ resp = SinRespuesta
    /\ estadoIndice = "legible"
    /\ noticias = SinNoticias
    /\ InitOtros

FiltrosConsulta == {"", "DOF", "veracruz"}

GenerarResumenDiarios ==
    \E f \in FechasConsulta, filtro \in FiltrosConsulta,
       mudas \in {{}, {"DOF"}, {"VERACRUZ"}} :
        /\ consulta' = [op |-> "generar_resumen_diarios", fecha |-> f,
                        jurisdiccion |-> filtro]
        /\ resp' = GenerarResumen(disk, archivos, f, filtro, mudas)
        /\ UNCHANGED <<disk, archivos, varsRun, varsAlmacen, varsOtros>>

NextResumen == GenerarResumenDiarios

SpecResumen == InitResumen /\ [][NextResumen]_vars

PosOrden(j) ==
    CHOOSE i \in 1..Len(ORDEN_JURISDICCIONES) : ORDEN_JURISDICCIONES[i] = j

EnOrden(j) == j \in Elementos(ORDEN_JURISDICCIONES)

\* the jurisdictions that have a context for the request
Disponibles ==
    {Upper(j) : j \in Elementos(Claves(
        ConstruirContexto(CargarDiarios(disk, consulta.fecha), archivos)))}

\* C10: without a filter the jurisdictions processed are the available
\* ones, each once and none omitted: those of the preferred list first, in
\* that list's order, then the others.
C10_OrdenJurisdicciones ==
    (/\ resp.op = "generar_resumen_diarios"
     /\ consulta.jurisdiccion = ""
     /\ Disponibles # {}) =>
        LET L == resp.a_procesar
        IN  /\ resp.enviadas = L
            /\ Elementos(L) = Disponibles
            /\ \A a, b \in 1..Len(L) : a # b => L[a] # L[b]
            /\ \A a, b \in 1..Len(L) :
                  (a < b /\ EnOrden(L[b])) =>
                      EnOrden(L[a]) /\ PosOrden(L[a]) < PosOrden(L[b])

\* ------------------------------------------------------------------------
\* Properties of procesar_diarios
\* ------------------------------------------------------------------------
LeerFila(f) == [c \in Columnas |-> LeerCelda(f[c])]

\* the row of the persisted index is one the loop skips / does not skip
ListaEnDisco(f) == YaProcesado(LeerFila(f))
PendienteEnDisco(f) == ~YaProcesado(LeerFila(f))

StatusListo(f) == Lower(Strip(f.status)) = "summary_ready"

TresCampos(f) == <<f.status, f.text_path, f.summary_path>>

FallosExtraccion == {"extraer_lanza", "extraer_vacio"}

FallosPasos4a6 ==
    {"mkdir_texto_lanza", "guardar_texto_lanza", "resumir_lanza",
     "mkdir_resumen_lanza", "guardar_resumen_lanza"}

\* C1: idempotence.  When a run has the same collaborator outcomes as the
\* run before it, it leaves the persisted index (status, text_path and
\* summary_path of every row) as the run before left it, and a run that
\* returns has marked no row summary_ready.
C1_Idempotencia ==
    (pc = "idle" /\ runs >= 2 /\ mismo) =>
        /\ Len(disk) = Len(disk0)
        /\ \A i \in 1..Len(disk) : TresCampos(disk[i]) = TresCampos(disk0[i])
        /\ (fin = "ok" => trans = {})

\* a second run with the same outcomes has returned, after a first run
\* that marked a row, and it has attempted again a row that failed
C1_Testigo ==
    /\ pc = "idle" /\ runs >= 2 /\ mismo /\ fin = "ok"
    /\ intentados # {}
    /\ \E i \in 1..Len(disk) :
          TresCampos(disk[i]) # TresCampos(index0[i])

\* C2: partial-failure tolerance.  A failed extraction (exception or
\* blank text) never ends the run and leaves its row as it was; when the
\* run returns, every row that was raw at its start is summary_ready on
\* disk if its steps succeeded and unchanged, still raw, if its extraction
\* failed, wherever the rows stand.
C2_ToleranciaParcial ==
    /\ (fin = "excepcion" => resultado[idx] \notin FallosExtraccion)
    /\ \A i \in intentados :
          resultado[i] \in FallosExtraccion => df[i] = LeerFila(disk0[i])
    /\ (fin = "ok" =>
          \A i \in 1..Len(disk0) :
             PendienteEnDisco(disk0[i]) =>
               /\ i \in intentados
               /\ (resultado[i] = "ok" =>
                     StatusListo(disk[i]) /\ ListaEnDisco(disk[i]))
               /\ (resultado[i] \in FallosExtraccion =>
                     disk[i] = disk0[i] /\ PendienteEnDisco(disk[i])))

\* a run has returned in which a row failed extraction and rows before
\* and after it (or the only other row) were marked
C2_Testigo ==
    /\ fin = "ok" /\ pc = "idle"
    /\ \E i \in intentados :
          /\ resultado[i] \in FallosExtraccion
          /\ \A j \in (1..Len(disk)) \ {i} : j \in trans /\ StatusListo(disk[j])
          /\ \E j \in trans : j > i

\* C3: the transition is atomic in the index.  For every row the run
\* attempted, the persisted row either has the three fields as the run
\* read them and is still raw, or has text_path and summary_path recorded
\* and status summary_ready.
C3_TransicionAtomica ==
    \A i \in intentados :
        \/ /\ TresCampos(disk[i]) = TresCampos(disk0[i])
           /\ PendienteEnDisco(disk[i])
        \/ /\ disk[i].status = "summary_ready"
           /\ disk[i].text_path = ArchivoTexto(disk0[i])
           /\ disk[i].summary_path = ArchivoResumen(disk0[i])
           /\ disk[i].text_path # "" /\ disk[i].summary_path # ""

\* a run has committed with one row marked and another one left raw by a
\* failure that came after its text file was written
C3_Testigo ==
    /\ fin = "ok"
    /\ \E i \in trans : disk[i].status = "summary_ready"
    /\ \E i \in intentados :
          resultado[i] \in {"resumir_lanza", "guardar_resumen_lanza"}

\* C6: if every summary_ready row of the first index has a non-empty
\* summary_path, so has every summary_ready row of the persisted index
\* after any runs.
PremisaResumen(indice) ==
    \A i \in 1..Len(indice) :
        StatusListo(indice[i]) => Strip(indice[i].summary_path) # ""

C6_ListoTieneResumen == PremisaResumen(index0) => PremisaResumen(disk)

\* a run has committed a new summary_ready row and left a failed one raw
C6_Testigo ==
    /\ PremisaResumen(index0)
    /\ fin = "ok" /\ trans # {} /\ intentados # trans
    /\ \E i \in trans : ~StatusListo(index0[i]) /\ StatusListo(disk[i])

\* C7: rows only move forward.  No step removes or replaces a row of the
\* persisted index, none takes a summary_ready row back, and a status
\* that changes changes from not yet processed to summary_ready.
C7_SoloAvanza ==
    [][ /\ Len(disk') = Len(disk)
        /\ \A i \in 1..Len(disk) :
              /\ disk'[i].id = disk[i].id
              /\ (StatusListo(disk[i]) => StatusListo(disk'[i]))
              /\ (disk'[i].status # disk[i].status =>
                    /\ disk'[i].status = "summary_ready"
                    /\ PendienteEnDisco(disk[i])) ]_vars

\* after two runs a row processed by the first is still summary_ready and
\* a row that failed in the first was marked by the second
C7_Testigo ==
    /\ runs >= 2 /\ fin = "ok" /\ trans # {}
    /\ \E i \in 1..Len(disk) :
          /\ ~StatusListo(index0[i]) /\ StatusListo(disk0[i])
          /\ StatusListo(disk[i])
    /\ \E i \in 1..Len(index0) : StatusListo(index0[i]) /\ StatusListo(disk[i])

\* C8: batch commit.  While the loop runs, and when an exception ends the
\* run, the index file has not been written and is the one read at the
\* start; a run that returns has written it once, after the last row.
C8_UnSoloGuardado ==
    /\ (pc = "loop" => escrituras = 0 /\ disk = disk0)
    /\ (fin = "excepcion" => escrituras = 0 /\ disk = disk0)
    /\ (fin = "ok" =>
          escrituras = 1 /\ idx = Len(df) + 1 /\ disk = EscribirCsv(df))

\* the loop is past a row it has marked and the file is still the old one
C8_Testigo ==
    /\ pc = "loop" /\ trans # {} /\ idx <= Len(df)
    /\ \E i \in trans : ~StatusListo(disk[i])

\* C9: a failure of steps 4 to 6 (the creation of the text and summary
\* directories included) does not leave the run: no run ends by an
\* exception raised while one of these steps failed.
C9_FalloNoPropaga ==
    fin = "excepcion" => resultado[idx] \notin FallosPasos4a6

\* ------------------------------------------------------------------------
\* backend_dap.py: the context of a day, summary files of every kind
\* ------------------------------------------------------------------------
MaxTomos == 2       \* rows (editions of one day) of the index

\* int(os.getenv("DO_MAX_CHARS_RESUMENES", "24000")): the values the
\* variable takes, the last one being the default
Presupuestos == {0, 7, MaxCharsPorJurisdiccion}

RECURSIVE Repetir(_, _)
Repetir(s, n) ==
    IF n = 0 THEN ""
    ELSE IF n % 2 = 0 THEN LET h == Repetir(s, n \div 2) IN h \o h
    ELSE s \o Repetir(s, n - 1)

\* a summary of 15,000 characters: two of them make 30,002 with the
\* separator
Largo == Repetir("a", 15000)

\* a row and its summary file: a short summary, a long one, a blank file,
\* no file, a file that cannot be read, and rows that are raw or carry no
\* summary_path
TiposResumen ==
    {"corto", "largo", "blanco", "ausente", "ilegible", "raw", "sin_ruta"}

JurisdiccionesContexto == {"DOF", "VERACRUZ"}

FilaContexto(i, j, t) ==
    CASE t = "raw" -> [FilaBase(i) EXCEPT !.jurisdiccion = j]
      [] t = "sin_ruta" ->
           [FilaBase(i) EXCEPT !.jurisdiccion = j, !.status = "summary_ready"]
      [] OTHER -> FilaResumen(i, j)

ContenidoDe(fila, t) ==
    CASE t = "corto" -> ResumenDe(fila)
      [] t = "largo" -> Largo
      [] t = "blanco" -> " "
      [] OTHER -> Ilegible

RECURSIVE ArchivosContexto(_, _, _)
ArchivosContexto(indice, tipos, n) ==
    IF n = 0 THEN SinArchivos
    ELSE LET resto == ArchivosContexto(indice, tipos, n - 1)
         IN  IF tipos[n] \in {"corto", "largo", "blanco", "ilegible"}
               THEN (indice[n].summary_path :> ContenidoDe(indice[n], tipos[n]))
                        @@ resto
               ELSE resto

InitContexto ==
    /\ \E n \in 1..MaxTomos :
         \E js \in [1..n -> JurisdiccionesContexto],
            ts \in [1..n -> TiposResumen] :
             /\ disk = [i \in 1..n |-> FilaContexto(i, js[i], ts[i])]
             /\ archivos = ArchivosContexto(disk, ts, n)
    /\ index0 = disk
    /\ disk0 = disk
    /\ df = <<>>
    /\ pc = "idle"
    /\ idx = 1
    /\ runs = 0
    /\ fin = "none"
    /\ resultado = [i \in 1..Len(disk) |-> "none"]
    /\ mismo = FALSE
    /\ escrituras = 0
    /\ intentados = {}
    /\ trans = {}
    /\ consulta = SinConsulta
    /\ resp = SinRespuesta
    /\ estadoIndice = "legible"
    /\ noticias = SinNoticias
    /\ InitOtros

\* construir_contexto_diarios_por_jurisdiccion on the rows loaded for a date
ConstruirContextoDiarios ==
    \E f \in FechasConsulta, m \in Presupuestos :
        /\ consulta' = [op |-> "construir_contexto", fecha |-> f,
                        max_chars |-> m,
                        registros |-> CargarDiarios(disk, f)]
        /\ resp' = [op |-> "construir_contexto", excepcion |-> "none",
                    contexto |->
                        ConstruirContextoCon(CargarDiarios(disk, f), archivos, m)]
        /\ UNCHANGED <<disk, archivos, varsRun, varsAlmacen, varsOtros>>

NextContexto == ConstruirContextoDiarios \/ GenerarResumenDiarios

SpecContexto == InitContexto /\ [][NextContexto]_vars

\* the summary file a loaded row names, "" when the cell is blank
RutaDe(r) == IF r.summary_path = NaN THEN "" ELSE r.summary_path

\* the row's summary file is missing or cannot be read
Roto(r) ==
    RutaDe(r) \notin DOMAIN archivos \/ archivos[RutaDe(r)] = Ilegible

\* the row's summary file can be read and is not blank
Contribuye(r) == ~Roto(r) /\ Strip(archivos[RutaDe(r)]) # ""

\* the readable non-empty summaries of a jurisdiction, in row order
Resumenes(regs, j) ==
    LET Del(r) == r.jurisdiccion = j /\ Contribuye(r)
        sel == SelectSeq(regs, Del)
    IN  [i \in 1..Len(sel) |-> Strip(archivos[sel[i].summary_path])]

\* C11: for every jurisdiction the assembled text is the blank-line join of
\* its readable non-empty summaries in row order, cut to its first
\* min(length, budget) characters: a prefix of the join, never longer than
\* the budget.
C11_RecorteContexto ==
    resp.op = "construir_contexto" =>
        LET regs == consulta.registros
            conResumen == {regs[i].jurisdiccion :
                             i \in {k \in 1..Len(regs) : Contribuye(regs[k])}}
        IN  /\ Elementos(Claves(resp.contexto)) = conResumen
            /\ \A k \in 1..Len(resp.contexto) :
                  LET it == resp.contexto[k]
                      todo == Unir(Resumenes(regs, it.jur))
                  IN  /\ Len(it.texto) = Min(Len(todo), consulta.max_chars)
                      /\ it.texto = SubSeq(todo, 1, Len(it.texto))
                      /\ Len(it.texto) <= consulta.max_chars

\* 30,002 characters of summaries and a budget of 24,000 gave 24,000
C11_Testigo ==
    /\ resp.op = "construir_contexto"
    /\ consulta.max_chars = 24000
    /\ \E k \in 1..Len(resp.contexto) :
          /\ Len(Unir(Resumenes(consulta.registros, resp.contexto[k].jur)))
                = 30002
          /\ Len(resp.contexto[k].texto) = 24000

\* C12: a row whose summary file is missing or cannot be read contributes
\* nothing and raises no error: the mapping is the one the other rows give,
\* every jurisdiction with a readable summary keeping its text.
C12_ResumenFaltante ==
    resp.op = "construir_contexto" =>
        LET regs == consulta.registros
            Sano(r) == ~Roto(r)
            sanos == SelectSeq(regs, Sano)
            NoVacio(r) == Strip(archivos[r.summary_path]) # ""
            DeSanos(j) ==
                LET Del(r) == r.jurisdiccion = j /\ NoVacio(r)
                    sel == SelectSeq(sanos, Del)
                IN  [i \in 1..Len(sel) |-> Strip(archivos[sel[i].summary_path])]
            jurs == {sanos[i].jurisdiccion :
                       i \in {k \in 1..Len(sanos) : NoVacio(sanos[k])}}
        IN  /\ resp.excepcion = "none"
            /\ Elementos(resp.contexto) =
                  {[jur |-> j,
                    texto |-> SubSeq(Unir(DeSanos(j)), 1,
                                Min(Len(Unir(DeSanos(j))), consulta.max_chars))]
                   : j \in jurs}

\* a jurisdiction with a missing and a readable summary keeps the readable
\* one, and so does the other jurisdiction
C12_Testigo ==
    /\ resp.op = "construir_contexto"
    /\ consulta.max_chars = MaxCharsPorJurisdiccion
    /\ \E a, b \in 1..Len(consulta.registros) :
          /\ a # b
          /\ consulta.registros[a].jurisdiccion
                = consulta.registros[b].jurisdiccion
          /\ Roto(consulta.registros[a])
          /\ Contribuye(consulta.registros[b])
          /\ \E k \in 1..Len(resp.contexto) :
                /\ resp.contexto[k].jur = consulta.registros[b].jurisdiccion
                /\ resp.contexto[k].texto
                      = Strip(archivos[consulta.registros[b].summary_path])

\* the index has no usable row of the date asked for
SinUsablesDelDia ==
    \A i \in 1..Len(disk) :
        ~(ParseFecha(disk[i].fecha) = Strptime(consulta.fecha) /\ Usable(disk[i]))

MensajesSinDatos ==
    {"No hay diarios oficiales para esa fecha",
     "No hay resumenes normativos disponibles para esa fecha"}

\* C13: an empty record set gives an empty mapping, and the daily summary
\* of a date without usable rows is a result with an empty resumen and a
\* no-data message, no context having been sent to the language model.
C13_AlcanceVacio ==
    /\ (resp.op = "construir_contexto" /\ consulta.registros = <<>>) =>
          (resp.contexto = <<>> /\ resp.excepcion = "none")
    /\ (resp.op = "generar_resumen_diarios" /\ SinUsablesDelDia) =>
          /\ resp.resumen = ""
          /\ resp.error \in MensajesSinDatos
          /\ resp.enviadas = <<>>

\* the index has rows of the date, none of them usable
C13_Testigo ==
    /\ resp.op = "generar_resumen_diarios"
    /\ SinUsablesDelDia
    /\ \E i \in 1..Len(disk) :
          ParseFecha(disk[i].fecha) = Strptime(consulta.fecha)
    /\ resp.error \in MensajesSinDatos

\* ------------------------------------------------------------------------
\* backend_dap.py: detectar_intencion_pregunta
\* ------------------------------------------------------------------------
MaxPalabras == 3    \* fragments of a question

\* str.lower() of one character
MinusculaDe(c) ==
    CASE c = "A" -> "a" [] c = "B" -> "b" [] c = "C" -> "c" [] c = "D" -> "d"
      [] c = "E" -> "e" [] c = "F" -> "f" [] c = "G" -> "g" [] c = "H" -> "h"
      [] c = "I" -> "i" [] c = "J" -> "j" [] c = "K" -> "k" [] c = "L" -> "l"
      [] c = "M" -> "m" [] c = "N" -> "n" [] c = "O" -> "o" [] c = "P" -> "p"
      [] c = "Q" -> "q" [] c = "R" -> "r" [] c = "S" -> "s" [] c = "T" -> "t"
      [] c = "U" -> "u" [] c = "V" -> "v" [] c = "W" -> "w" [] c = "X" -> "x"
      [] c = "Y" -> "y" [] c = "Z" -> "z" [] c = "Á" -> "á" [] c = "É" -> "é"
      [] c = "Í" -> "í" [] c = "Ó" -> "ó" [] c = "Ú" -> "ú" [] c = "Ñ" -> "ñ"
      [] c = "Ü" -> "ü"
      [] OTHER -> c

\* str.lower()
RECURSIVE Minusculas(_)
Minusculas(t) ==
    IF t = "" THEN ""
    ELSE MinusculaDe(SubSeq(t, 1, 1)) \o Minusculas(SubSeq(t, 2, Len(t)))

\* Python's  w in p  on strings
Contiene(p, w) ==
    \E i \in 1..(Len(p) - Len(w) + 1) : SubSeq(p, i, i + Len(w) - 1) = w

\* the if/elif chain on the lowered question; "None" for None
JurisdiccionDeVeracruzPrimero(p) ==
    IF Contiene(p, "dof") \/ Contiene(p, "diario oficial de la federación")
      THEN "DOF"
    ELSE IF Contiene(p, "veracruz") THEN "VERACRUZ"
    ELSE IF Contiene(p, "sonora") THEN "SONORA"
    ELSE IF Contiene(p, "cdmx") \/ Contiene(p, "ciudad de méxico") THEN "CDMX"
    ELSE "None"

JurisdiccionDe(p) ==
    IF Contiene(p, "dof") \/ Contiene(p, "diario oficial de la federación")
      THEN "DOF"
    ELSE IF Contiene(p, "sonora") THEN "SONORA"
    ELSE IF Contiene(p, "veracruz") THEN "VERACRUZ"
    ELSE IF Contiene(p, "cdmx") \/ Contiene(p, "ciudad de méxico") THEN "CDMX"
    ELSE "None"

palabras_normativo ==
    <<"dof", "diario oficial", "gaceta", "congreso", "parlamentaria", "ley",
      "reforma">>

\* any(w in p for w in palabras_normativo) or jurisdiccion is not None
EsNormativoSoloPalabras(p, jurisdiccion) ==
    \E i \in 1..Len(palabras_normativo) : Contiene(p, palabras_normativo[i])

EsNormativo(p, jurisdiccion) ==
    \/ \E i \in 1..Len(palabras_normativo) : Contiene(p, palabras_normativo[i])
    \/ jurisdiccion # "None"

\* the dict patrones_temas, in insertion order
patrones_temas ==
    <<[t |-> "industria_alimentaria",
       patrones |-> <<"industria alimentaria", "alimentos", "alimentaria">>],
      [t |-> "cemento", patrones |-> <<"cemento">>],
      [t |-> "gas", patrones |-> <<"gas">>],
      [t |-> "impuesto",
       patrones |-> <<"impuesto", "impuestos", "tributario", "fiscal">>],
      [t |-> "casinos", patrones |-> <<"casino", "casinos", "juegos de azar">>],
      [t |-> "movilidad",
       patrones |-> <<"movilidad", "transporte público", "tráfico",
                      "transito", "tránsito">>],
      [t |-> "seguridad",
       patrones |-> <<"seguridad", "violencia", "delincuencia">>],
      [t |-> "agenda nacional",
       patrones |-> <<"agenda nacional", "noticias nacionales">>]>>

\* any(pat in p for pat in patrones)
AlgunPatron(p, patrones) ==
    \E i \in 1..Len(patrones) : Contiene(p, patrones[i])

\* the loop over patrones_temas.items() from entry k on, with its break
RECURSIVE TerminoDesde(_, _)
TerminoDesde(p, k) ==
    IF k > Len(patrones_temas) THEN "None"
    ELSE IF AlgunPatron(p, patrones_temas[k].patrones)
      THEN patrones_temas[k].t
    ELSE TerminoDesde(p, k + 1)

\* the same loop without the break: the last match stays
RECURSIVE TerminoSinBreakDesde(_, _)
TerminoSinBreakDesde(p, k) ==
    IF k > Len(patrones_temas) THEN "None"
    ELSE LET resto == TerminoSinBreakDesde(p, k + 1)
         IN  IF resto # "None" THEN resto
             ELSE IF AlgunPatron(p, patrones_temas[k].patrones)
               THEN patrones_temas[k].t
             ELSE "None"

TerminoDeSinBreak(p) == TerminoSinBreakDesde(p, 1)

TerminoDe(p) == TerminoDesde(p, 1)

\* tipo = "normativo" if es_normativo else "noticias"
TipoDe(es_normativo) == IF es_normativo THEN "normativo" ELSE "noticias"

\* detectar_intencion_pregunta(pregunta), "" standing for None as well
DetectarIntencionTemaPrimero(pregunta) ==
    LET p == Minusculas(pregunta)
        jurisdiccion == JurisdiccionDe(p)
        termino == TerminoDe(p)
    IN  [tipo |-> IF termino # "None" THEN "noticias"
                  ELSE TipoDe(EsNormativo(p, jurisdiccion)),
         jurisdiccion |-> jurisdiccion,
         termino |-> termino]

DetectarIntencion(pregunta) ==
    LET p == Minusculas(pregunta)
        jurisdiccion == JurisdiccionDe(p)
        termino == TerminoDe(p)
    IN  [tipo |-> TipoDe(EsNormativo(p, jurisdiccion)),
         jurisdiccion |-> jurisdiccion,
         termino |-> termino]

\* the questions: up to MaxPalabras of these fragments, with spaces
Fragmentos ==
    <<"DOF", "Sonora", "VERACRUZ", "CIUDAD DE MÉXICO", "Diario Oficial",
      "Ley", "impuestos", "alimentos", "gasolina", "hola">>

RECURSIVE UnirPalabras(_)
UnirPalabras(ws) ==
    IF ws = <<>> THEN ""
    ELSE IF Len(ws) = 1 THEN Fragmentos[ws[1]]
    ELSE Fragmentos[ws[1]] \o " " \o UnirPalabras(Tail(ws))

Preguntas ==
    UNION {{UnirPalabras(ws) : ws \in [1..n -> 1..Len(Fragmentos)]}
           : n \in 0..MaxPalabras}

InitIntencion ==
    /\ disk \in {<<FilaResumen(1, "DOF")>>}
    /\ index0 = disk
    /\ disk0 = disk
    /\ df = <<>>
    /\ pc = "idle"
    /\ idx = 1
    /\ runs = 0
    /\ fin = "none"
    /\ resultado = [i \in 1..Len(disk) |-> "none"]
    /\ mismo = FALSE
    /\ escrituras = 0
    /\ intentados = {}
    /\ trans = {}
    /\ archivos = ArchivosDe(disk)
    /\ \E q \in Preguntas : consulta = [op |-> "pendiente", pregunta |-> q]
    /\ resp = SinRespuesta
    /\ estadoIndice = "legible"
    /\ noticias = SinNoticias
    /\ InitOtros

DetectarIntencionPregunta ==
    /\ consulta.op = "pendiente"
    /\ consulta' = [consulta EXCEPT !.op = "detectar_intencion_pregunta"]
    /\ resp' = [op |-> "detectar_intencion_pregunta",
                intent |-> DetectarIntencion(consulta.pregunta)]
    /\ UNCHANGED <<disk, archivos, varsRun, varsAlmacen, varsOtros>>

NextIntencion == DetectarIntencionPregunta

SpecIntencion == InitIntencion /\ [][NextIntencion]_vars

\* the keyword tables the claims name, in their order
TablaJurisdicciones ==
    <<[jur |-> "DOF", claves |-> {"dof", "diario oficial de la federación"}],
      [jur |-> "SONORA", claves |-> {"sonora"}],
      [jur |-> "VERACRUZ", claves |-> {"veracruz"}],
      [jur |-> "CDMX", claves |-> {"cdmx", "ciudad de méxico"}]>>

ClavesNormativas ==
    {"dof", "diario oficial", "gaceta", "congreso", "parlamentaria", "ley",
     "reforma"}

TablaTemas ==
    <<[tema |-> "industria_alimentaria",
       claves |-> {"industria alimentaria", "alimentos", "alimentaria"}],
      [tema |-> "cemento", claves |-> {"cemento"}],
      [tema |-> "gas", claves |-> {"gas"}],
      [tema |-> "impuesto",
       claves |-> {"impuesto", "impuestos", "tributario", "fiscal"}],
      [tema |-> "casinos", claves |-> {"casino", "casinos", "juegos de azar"}],
      [tema |-> "movilidad",
       claves |-> {"movilidad", "transporte público", "tráfico", "transito",
                   "tránsito"}],
      [tema |-> "seguridad", claves |-> {"seguridad", "violencia", "delincuencia"}],
      [tema |-> "agenda nacional",
       claves |-> {"agenda nacional", "noticias nacionales"}]>>

\* the question holds one of the keywords, whatever its case
Nombra(q, claves) == \E w \in claves : Contiene(Minusculas(q), w)

JurisdiccionesNombradas(q) ==
    {k \in 1..Len(TablaJurisdicciones) : Nombra(q, TablaJurisdicciones[k].claves)}

TemasNombrados(q) ==
    {k \in 1..Len(TablaTemas) : Nombra(q, TablaTemas[k].claves)}

Primero(S) == CHOOSE k \in S : \A m \in S : k <= m

\* C14: the jurisdiction is the first of DOF, SONORA, VERACRUZ, CDMX one of
\* whose keywords the question contains, case ignored, and is empty iff the
\* question contains no jurisdiction keyword.
C14_JurisdiccionPorOrden ==
    resp.op = "detectar_intencion_pregunta" =>
        LET S == JurisdiccionesNombradas(consulta.pregunta)
        IN  IF S = {} THEN resp.intent.jurisdiccion = "None"
            ELSE resp.intent.jurisdiccion = TablaJurisdicciones[Primero(S)].jur

\* a question naming Sonora and Veracruz, Veracruz first, resolves to SONORA
C14_Testigo ==
    /\ resp.op = "detectar_intencion_pregunta"
    /\ consulta.pregunta = "VERACRUZ Sonora"
    /\ resp.intent.jurisdiccion = "SONORA"

\* C15: the scope is normativo iff the question contains a regulatory
\* keyword or a jurisdiction was detected, and noticias otherwise, whatever
\* the topic.
C15_AlcanceNormativo ==
    resp.op = "detectar_intencion_pregunta" =>
        LET normativo == \/ Nombra(consulta.pregunta, ClavesNormativas)
                         \/ resp.intent.jurisdiccion # "None"
        IN  /\ resp.intent.tipo \in {"normativo", "noticias"}
            /\ resp.intent.tipo = "normativo" <=> normativo

\* a jurisdiction alone, with a topic, makes the scope normativo
C15_Testigo ==
    /\ resp.op = "detectar_intencion_pregunta"
    /\ consulta.pregunta = "Sonora impuestos"
    /\ resp.intent.tipo = "normativo"
    /\ resp.intent.termino = "impuesto"

\* C16: the topic is the first of the table one of whose keywords is in
\* the lowered question, and is empty iff no topic keyword is.
C16_TemaPorOrden ==
    resp.op = "detectar_intencion_pregunta" =>
        LET S == TemasNombrados(consulta.pregunta)
        IN  IF S = {} THEN resp.intent.termino = "None"
            ELSE resp.intent.termino = TablaTemas[Primero(S)].tema

\* impuesto and gas (in gasolina) both match: the earlier topic wins
C16_Testigo ==
    /\ resp.op = "detectar_intencion_pregunta"
    /\ consulta.pregunta = "impuestos gasolina"
    /\ resp.intent.termino = "gas"

\* the question contains "impuestos" and no jurisdiction keyword
ConImpuestos ==
    /\ resp.op = "detectar_intencion_pregunta"
    /\ Nombra(consulta.pregunta, {"impuestos"})
    /\ JurisdiccionesNombradas(consulta.pregunta) = {}

\* C17 as stated: such a question is noticias with topic impuesto, or
\* normativo when it holds a regulatory keyword.
C17_ImpuestosOriginal ==
    ConImpuestos =>
        IF Nombra(consulta.pregunta, ClavesNormativas)
          THEN resp.intent.tipo = "normativo"
          ELSE resp.intent.tipo = "noticias" /\ resp.intent.termino = "impuesto"

\* C17 amended: such a question is noticias, or normativo when it holds a
\* regulatory keyword, and its topic is impuesto when it holds no keyword
\* of a topic earlier in the table (industria_alimentaria, cemento, gas),
\* and otherwise the earliest such topic.
C17_Impuestos ==
    ConImpuestos =>
        /\ IF Nombra(consulta.pregunta, ClavesNormativas)
             THEN resp.intent.tipo = "normativo"
             ELSE resp.intent.tipo = "noticias"
        /\ LET antes == {k \in 1..3 :
                            Nombra(consulta.pregunta, TablaTemas[k].claves)}
           IN  IF antes = {} THEN resp.intent.termino = "impuesto"
               ELSE resp.intent.termino = TablaTemas[Primero(antes)].tema

\* "impuestos" with a regulatory keyword and no jurisdiction
C17_Testigo ==
    /\ ConImpuestos
    /\ consulta.pregunta = "Ley impuestos"
    /\ resp.intent.tipo = "normativo"
    /\ resp.intent.termino = "impuesto"

\* ------------------------------------------------------------------------
\* backend_dap.py: the routes, on an index or a news file that may be
\* missing or lack a column
\* ------------------------------------------------------------------------
DO_INDEX_CSV == "do_index.csv"
NOTICIAS_DAP_CSV == "noticias_dap.csv"

FechaInvalida == "La fecha debe ir en formato YYYY-MM-DD"

\* what a loader hands to its caller: the exception it raises, or the rows
Lanza(excepcion, mensaje) ==
    [excepcion |-> excepcion, mensaje |-> mensaje, filas |-> <<>>]

Devuelve(filas) == [excepcion |-> "none", mensaje |-> "", filas |-> filas]

\* cargar_diarios_por_fecha(fecha_str) with its checks of the file
CargarDiariosDe(estado, archivo, fecha_str) ==
    IF estado = "ausente"
      THEN Lanza("FileNotFoundError",
                 "No se encontro el archivo " \o DO_INDEX_CSV)
    ELSE IF estado = "sin_columna_fecha"
      THEN Lanza("ValueError", "El do_index.csv debe tener la columna 'fecha'")
    ELSE IF Strptime(fecha_str) = NaT
      THEN Lanza("ValueError", FechaInvalida)
    ELSE Devuelve(CargarDiarios(archivo, fecha_str))

\* cargar_noticias_dap_por_fecha(fecha_str)
CargarNoticiasDe(news, fecha_str) ==
    IF news.estado = "ausente"
      THEN Lanza("FileNotFoundError",
                 "No se encontro el archivo " \o NOTICIAS_DAP_CSV)
    ELSE IF news.estado = "sin_columna_fecha"
      THEN Lanza("ValueError",
                 "El CSV de noticias DAP debe tener la columna 'fecha'")
    ELSE IF Strptime(fecha_str) = NaT
      THEN Lanza("ValueError", FechaInvalida)
    ELSE LET DelDia(row) == ParseFecha(row.fecha) = Strptime(fecha_str)
         IN  Devuelve(SelectSeq(news.filas, DelDia))

\* obtener_ultima_fecha_noticias(): "None" for None
UltimaFechaNoticias(news) ==
    LET fechas == {ParseFecha(news.filas[i].fecha) :
                     i \in 1..Len(news.filas)} \ {NaT}
    IN  IF news.estado # "legible" \/ fechas = {} THEN "None"
        ELSE Strftime(Maximo(fechas))

\* obtener_ultima_fecha_diarios() with its checks of the file
UltimaFechaDiariosDe(estado, archivo) ==
    IF estado # "legible" THEN "None" ELSE UltimaFechaDiarios(archivo)

\* a response: the HTTP code, the JSON body, the context sent to the
\* language model and the number of calls made to it
Respuesta(op, codigo, cuerpo) ==
    [op |-> op, codigo |-> codigo, cuerpo |-> cuerpo, contexto |-> "",
     llamadas |-> 0]

SoloError(mensaje) == [error |-> mensaje]

\* GET /resumen_diarios?fecha=&jurisdiccion=
ResumenDiariosRuta(estado, archivo, fs, fecha_str, jurisdiccion, mudas, llm) ==
    LET op == "resumen_diarios"
        filtro == IF jurisdiccion # "" THEN Upper(Strip(jurisdiccion)) ELSE ""
        c == CargarDiariosDe(estado, archivo, fecha_str)
        r == GenerarResumen(archivo, fs, fecha_str, filtro, mudas)
    IN  IF fecha_str = ""
          THEN Respuesta(op, 400, SoloError(
                 "Debe especificar una fecha en formato YYYY-MM-DD"))
        ELSE IF c.excepcion = "FileNotFoundError"
          THEN Respuesta(op, 500, SoloError(c.mensaje))
        ELSE IF c.excepcion = "ValueError"
          THEN Respuesta(op, 400, SoloError(c.mensaje))
        ELSE IF llm = "lanza" /\ r.enviadas # <<>>
          THEN [Respuesta(op, 500, SoloError(
                  "Error interno al generar el resumen normativo"))
                EXCEPT !.llamadas = 1]
        ELSE IF r.error # ""
          THEN [Respuesta(op, 404,
                  [fecha |-> r.fecha, resumen |-> r.resumen, error |-> r.error])
                EXCEPT !.llamadas = Len(r.enviadas)]
        ELSE [Respuesta(op, 200, [fecha |-> r.fecha, resumen |-> r.resumen])
              EXCEPT !.llamadas = Len(r.enviadas)]

\* GET /resumen_noticias?fecha=
ResumenNoticiasRuta(news, fecha_str, llm) ==
    LET op == "resumen_noticias"
        c == CargarNoticiasDe(news, fecha_str)
    IN  IF fecha_str = ""
          THEN Respuesta(op, 400, SoloError(
                 "Debe especificar una fecha en formato YYYY-MM-DD"))
        ELSE IF c.excepcion = "FileNotFoundError"
          THEN Respuesta(op, 500, SoloError(c.mensaje))
        ELSE IF c.excepcion = "ValueError"
          THEN Respuesta(op, 400, SoloError(c.mensaje))
        ELSE IF c.filas = <<>>
          THEN Respuesta(op, 404,
                 [fecha |-> fecha_str, resumen |-> "",
                  titulares_por_tema |-> <<>>,
                  error |-> "No hay noticias para esa fecha"])
        ELSE IF llm = "lanza"
          THEN [Respuesta(op, 500, SoloError(
                  "Error interno al generar el resumen"))
                EXCEPT !.llamadas = 1]
        ELSE [Respuesta(op, 200,
                [fecha |-> fecha_str, resumen |-> "resumen de noticias"])
              EXCEPT !.llamadas = 1]

\* GET /jurisdicciones_disponibles?fecha=
JurisdiccionesDisponiblesRuta(estado, archivo, fecha_str) ==
    LET op == "jurisdicciones_disponibles"
        c == CargarDiariosDe(estado, archivo, fecha_str)
    IN  IF fecha_str = ""
          THEN Respuesta(op, 400, SoloError(
                 "Debe especificar una fecha en formato YYYY-MM-DD"))
        ELSE IF c.excepcion = "FileNotFoundError"
          THEN Respuesta(op, 500, SoloError(c.mensaje))
        ELSE IF c.excepcion = "ValueError"
          THEN Respuesta(op, 400, SoloError(c.mensaje))
        ELSE IF c.filas = <<>>
          THEN Respuesta(op, 404,
                 [fecha |-> fecha_str, jurisdicciones |-> <<>>])
        ELSE Respuesta(op, 200,
               [fecha |-> fecha_str,
                jurisdicciones |->
                    OrdenarCadenas({Upper(PyStr(c.filas[i].jurisdiccion)) :
                                      i \in 1..Len(c.filas)})])

\* the documents of /do_pdfs: the ids of the rows, blank ids skipped
RECURSIVE Documentos(_, _)
Documentos(filas, jurisdiccion) ==
    IF filas = <<>> THEN <<>>
    ELSE LET doc_id == Strip(PyStr(Head(filas).id))
             resto == Documentos(Tail(filas), jurisdiccion)
         IN  IF doc_id = "" THEN resto
             ELSE <<[id |-> doc_id, nombre |-> doc_id,
                     jurisdiccion |-> jurisdiccion,
                     url |-> "/descargar_pdf?id=" \o doc_id]>> \o resto

\* GET /do_pdfs?fecha=&jurisdiccion=
DoPdfsRuta(estado, archivo, fecha_str, jurisdiccion_arg) ==
    LET op == "do_pdfs"
        jurisdiccion == Upper(Strip(jurisdiccion_arg))
        c == CargarDiariosDe(estado, archivo, fecha_str)
        DeJur(row) == Upper(PyStr(row.jurisdiccion)) = jurisdiccion
        df_jur == SelectSeq(c.filas, DeJur)
    IN  IF fecha_str = ""
          THEN Respuesta(op, 400, SoloError(
                 "Debe especificar una fecha en formato YYYY-MM-DD"))
        ELSE IF jurisdiccion_arg = ""
          THEN Respuesta(op, 400, SoloError("Debe especificar una jurisdiccion"))
        ELSE IF c.excepcion = "FileNotFoundError"
          THEN Respuesta(op, 500, [error |-> c.mensaje, documentos |-> <<>>])
        ELSE IF c.excepcion = "ValueError"
          THEN Respuesta(op, 400, [error |-> c.mensaje, documentos |-> <<>>])
        ELSE Respuesta(op, 200,
               [fecha |-> fecha_str, jurisdiccion |-> jurisdiccion,
                documentos |-> Documentos(df_jur, jurisdiccion)])

\* os.path.normpath(os.path.join(pdf_dir, doc_id))
RutaPdf(pdf_dir, doc_id) == pdf_dir \o "/" \o doc_id

\* GET /descargar_pdf?id=: the file sent is the body of the response
DescargarPdfRuta(estado, archivo, fs, doc_id, envio) ==
    LET op == "descargar_pdf"
        frame == LeerCsv(archivo)
        ConId(row) == PyStr(row.id) = doc_id
        df_id == SelectSeq(frame, ConId)
        pdf_dir == Strip(PyStr(df_id[1].pdf_path))
        ruta_pdf == RutaPdf(pdf_dir, doc_id)
    IN  IF doc_id = ""
          THEN Respuesta(op, 400, SoloError("Debe especificar el parametro 'id'"))
        ELSE IF estado = "ausente"
          THEN Respuesta(op, 500, SoloError(
                 "No se encontro el archivo " \o DO_INDEX_CSV))
        ELSE IF df_id = <<>>
          THEN Respuesta(op, 404, SoloError(
                 "No se encontro un registro con id=" \o doc_id))
        ELSE IF pdf_dir = ""
          THEN Respuesta(op, 500, SoloError(
                 "El indice no tiene pdf_path para este documento"))
        ELSE IF ruta_pdf \notin DOMAIN fs
          THEN Respuesta(op, 404, SoloError(
                 "No se encontro el PDF en " \o ruta_pdf))
        ELSE IF envio = "lanza"
          THEN Respuesta(op, 500, SoloError("Error interno al enviar el PDF"))
        ELSE Respuesta(op, 200, [archivo |-> ruta_pdf, download_name |-> doc_id])

\* "\n".join(lineas)
RECURSIVE UnirLineas(_)
UnirLineas(lineas) ==
    IF lineas = <<>> THEN ""
    ELSE IF Len(lineas) = 1 THEN lineas[1]
    ELSE lineas[1] \o "\n" \o UnirLineas(Tail(lineas))

Cabeza(filas, n) == SubSeq(filas, 1, Min(Len(filas), n))

SinContexto == [contexto |-> "", fuentes |-> <<>>]

\* preparar_contexto_y_fuentes_noticias(fecha_str, termino_filtro):
\* every exception of the loader ends in ("", [])
PrepararNoticias(news, fecha_str, termino) ==
    LET c == CargarNoticiasDe(news, fecha_str)
        DelTema(row) == PyStr(row.termino) = termino
        noticias_dia == IF termino # "None" THEN SelectSeq(c.filas, DelTema)
                        ELSE c.filas
        trunc == Cabeza(noticias_dia, 40)
    IN  IF c.excepcion # "none" \/ noticias_dia = <<>> THEN SinContexto
        ELSE [contexto |->
                UnirLineas([i \in 1..Len(trunc) |->
                    "[" \o PyStr(trunc[i].termino) \o "] "
                        \o PyStr(trunc[i].titular)
                        \o " (medio: " \o PyStr(trunc[i].medio) \o ")"]),
              fuentes |-> [i \in 1..Len(trunc) |-> PyStr(trunc[i].titular)]]

\* preparar_contexto_y_fuentes_diarios(fecha_str, jurisdiccion)
PrepararDiarios(estado, archivo, fs, fecha_str, jurisdiccion) ==
    LET c == CargarDiariosDe(estado, archivo, fecha_str)
        DeJur(row) == Upper(PyStr(row.jurisdiccion)) = Upper(jurisdiccion)
        df_dia == IF jurisdiccion # "None" THEN SelectSeq(c.filas, DeJur)
                  ELSE c.filas
        contexto_por_jur == ConstruirContexto(df_dia, fs)
        Bloque(it) == it.jur \o ":\n" \o it.texto
        EsLaPedida(it) == it.jur = jurisdiccion
        elegidos ==
            IF jurisdiccion # "None"
                 /\ jurisdiccion \in Elementos(Claves(contexto_por_jur))
              THEN SelectSeq(contexto_por_jur, EsLaPedida)
              ELSE contexto_por_jur
        relevantes == Cabeza(df_dia, 10)
    IN  IF c.excepcion # "none" \/ df_dia = <<>> THEN SinContexto
        ELSE [contexto |->
                Unir([i \in 1..Len(elegidos) |-> Bloque(elegidos[i])]),
              fuentes |-> [i \in 1..Len(relevantes) |-> PyStr(relevantes[i].id)]]

SinFecha == "No se pudo determinar una fecha valida para responder la pregunta"

\* POST /pregunta {pregunta, fecha}: fecha_usada is fecha_str after the
\* resolution, "None" for None
Pregunta(estado, archivo, fs, news, texto_pregunta, fecha_arg, llm) ==
    LET op == "pregunta"
        intent == DetectarIntencion(texto_pregunta)
        tipo == intent.tipo
        jurisdiccion == intent.jurisdiccion
        termino == intent.termino
        fecha_str ==
            IF fecha_arg # "" THEN fecha_arg
            ELSE IF tipo = "noticias" THEN UltimaFechaNoticias(news)
            ELSE UltimaFechaDiariosDe(estado, archivo)
        prep == IF tipo = "noticias"
                  THEN PrepararNoticias(news, fecha_str, termino)
                  ELSE PrepararDiarios(estado, archivo, fs, fecha_str,
                                       jurisdiccion)
        desc_jur == IF jurisdiccion # "None" THEN " para " \o jurisdiccion
                    ELSE ""
        Con(r, f, c, n) ==
            [op |-> r.op, codigo |-> r.codigo, cuerpo |-> r.cuerpo,
             contexto |-> c, llamadas |-> n, fecha_usada |-> f, tipo |-> tipo]
    IN  IF texto_pregunta = ""
          THEN Con(Respuesta(op, 400, SoloError(
                 "Debe especificar el campo 'pregunta' en el cuerpo JSON")),
                 "None", "", 0)
        ELSE IF fecha_str = "None"
          THEN Con(Respuesta(op, 400, SoloError(SinFecha)), "None", "", 0)
        ELSE IF prep.contexto = "" /\ tipo = "noticias"
          THEN Con(Respuesta(op, 200,
                 [respuesta |->
                    "No encontre noticias relevantes para esa pregunta en la fecha "
                        \o fecha_str \o ".",
                  fuentes |-> <<>>, tipo |-> tipo, fecha |-> fecha_str]),
                 fecha_str, "", 0)
        ELSE IF prep.contexto = ""
          THEN Con(Respuesta(op, 200,
                 [respuesta |->
                    "No encontre contenido normativo relevante" \o desc_jur
                        \o " en la fecha " \o fecha_str \o ".",
                  fuentes |-> <<>>, tipo |-> tipo, fecha |-> fecha_str,
                  jurisdiccion |-> jurisdiccion]),
                 fecha_str, "", 0)
        ELSE IF llm = "lanza"
          THEN Con(Respuesta(op, 500, SoloError(
                 "Error interno al generar la respuesta de la pregunta")),
                 fecha_str, prep.contexto, 1)
        ELSE Con(Respuesta(op, 200,
               [respuesta |-> "respuesta", fuentes |-> prep.fuentes,
                tipo |-> tipo, fecha |-> fecha_str,
                jurisdiccion |-> jurisdiccion, termino |-> termino]),
               fecha_str, prep.contexto, 1)

\* the stores of the routes
MaxNoticias == 2    \* rows of the news file

EstadosArchivo == {"legible", "ausente", "sin_columna_fecha"}

TiposFila == {"lista", "raw", "legado", "sin_ruta"}

FilaRuta(i, f, t) ==
    [(CASE t = "lista" -> FilaInicial(i, "lista")
        [] t = "raw" -> FilaInicial(i, "nueva")
        [] t = "legado" -> FilaInicial(i, "legado")
        [] OTHER -> FilaInicial(i, "lista_sin_resumen"))
     EXCEPT !.fecha = f]

IndicesRuta ==
    UNION {{[i \in 1..n |-> FilaRuta(i, fs[i], ts[i])] :
              fs \in [1..n -> FechasConsulta], ts \in [1..n -> TiposFila]}
           : n \in 0..MaxDocs}

\* the PDF of every row is in its pdf_path
RECURSIVE ConPdfs(_, _, _)
ConPdfs(fs, indice, n) ==
    IF n = 0 THEN fs
    ELSE (RutaPdf(indice[n].pdf_path, indice[n].id) :> "%PDF")
            @@ ConPdfs(fs, indice, n - 1)

FilaNoticia(i, f) ==
    [fecha |-> f, titular |-> IF i = 1 THEN "titular 1" ELSE "titular 2",
     termino |-> "impuesto", enlace |-> "https://medio/nota",
     medio |-> "medio"]

ArchivosNoticias ==
    UNION {{[i \in 1..n |-> FilaNoticia(i, fs[i])] : fs \in [1..n -> CeldasFecha]}
           : n \in 0..MaxNoticias}

InitRutas ==
    /\ \/ /\ disk \in IndicesRuta
          /\ estadoIndice \in EstadosArchivo
          /\ noticias = [estado |-> "legible",
                         filas |-> <<FilaNoticia(1, "2026-01-01")>>]
       \/ /\ disk = <<FilaRuta(1, "2026-01-01", "lista")>>
          /\ estadoIndice = "legible"
          /\ \E e \in EstadosArchivo, filas \in ArchivosNoticias :
                noticias = [estado |-> e, filas |-> filas]
    /\ archivos = ConPdfs(ArchivosDe(disk), disk, Len(disk))
    /\ index0 = disk
    /\ disk0 = disk
    /\ df = <<>>
    /\ pc = "idle"
    /\ idx = 1
    /\ runs = 0
    /\ fin = "none"
    /\ resultado = [i \in 1..Len(disk) |-> "none"]
    /\ mismo = FALSE
    /\ escrituras = 0
    /\ intentados = {}
    /\ trans = {}
    /\ consulta = SinConsulta
    /\ resp = SinRespuesta
    /\ InitOtros

\* what a request can carry
PreguntasRuta ==
    {"que publico el DOF", "Ley de impuestos", "impuestos", "hola"}

FechasPeticion == FechasConsulta \cup {"", "ayer"}

ResultadosLlm == {"ok", "lanza"}

\* one request is served in a behaviour: no route changes the stores
RutaPregunta ==
    /\ consulta.op = "none"
    /\ \E q \in PreguntasRuta, f \in FechasPeticion, llm \in ResultadosLlm :
          /\ consulta' = [op |-> "pregunta", pregunta |-> q, fecha |-> f]
          /\ resp' = Pregunta(estadoIndice, disk, archivos, noticias, q, f, llm)
    /\ UNCHANGED <<disk, archivos, varsRun, varsAlmacen, varsOtros>>

RutaResumenDiarios ==
    /\ consulta.op = "none"
    /\ \E f \in FechasPeticion, j \in {"", "DOF"}, mudas \in {{}, {"DOF"}},
          llm \in ResultadosLlm :
          /\ consulta' = [op |-> "resumen_diarios", fecha |-> f,
                          jurisdiccion |-> j]
          /\ resp' = ResumenDiariosRuta(estadoIndice, disk, archivos, f, j,
                                        mudas, llm)
    /\ UNCHANGED <<disk, archivos, varsRun, varsAlmacen, varsOtros>>

RutaResumenNoticias ==
    /\ consulta.op = "none"
    /\ \E f \in FechasPeticion, llm \in ResultadosLlm :
          /\ consulta' = [op |-> "resumen_noticias", fecha |-> f]
          /\ resp' = ResumenNoticiasRuta(noticias, f, llm)
    /\ UNCHANGED <<disk, archivos, varsRun, varsAlmacen, varsOtros>>

RutaJurisdiccionesDisponibles ==
    /\ consulta.op = "none"
    /\ \E f \in FechasPeticion :
          /\ consulta' = [op |-> "jurisdicciones_disponibles", fecha |-> f]
          /\ resp' = JurisdiccionesDisponiblesRuta(estadoIndice, disk, f)
    /\ UNCHANGED <<disk, archivos, varsRun, varsAlmacen, varsOtros>>

RutaDoPdfs ==
    /\ consulta.op = "none"
    /\ \E f \in FechasPeticion, j \in {"", "DOF", "veracruz"} :
          /\ consulta' = [op |-> "do_pdfs", fecha |-> f, jurisdiccion |-> j]
          /\ resp' = DoPdfsRuta(estadoIndice, disk, f, j)
    /\ UNCHANGED <<disk, archivos, varsRun, varsAlmacen, varsOtros>>

RutaDescargarPdf ==
    /\ consulta.op = "none"
    /\ \E id \in {"", "d1.pdf", "d2.pdf", "d9.pdf"}, envio \in ResultadosLlm :
          /\ consulta' = [op |-> "descargar_pdf", id |-> id]
          /\ resp' = DescargarPdfRuta(estadoIndice, disk, archivos, id, envio)
    /\ UNCHANGED <<disk, archivos, varsRun, varsAlmacen, varsOtros>>

NextRutas ==
    \/ RutaPregunta
    \/ RutaResumenDiarios
    \/ RutaResumenNoticias
    \/ RutaJurisdiccionesDisponibles
    \/ RutaDoPdfs
    \/ RutaDescargarPdf

SpecRutas == InitRutas /\ [][NextRutas]_vars

\* the dates of the usable rows of the index and of the rows of the news
\* file, none when the file cannot be read
FechasUsables ==
    IF estadoIndice # "legible" THEN {}
    ELSE {ParseFecha(disk[i].fecha) :
            i \in {k \in 1..Len(disk) : Usable(disk[k])}} \ {NaT}

FechasNoticias ==
    IF noticias.estado # "legible" THEN {}
    ELSE {ParseFecha(noticias.filas[i].fecha) :
            i \in 1..Len(noticias.filas)} \ {NaT}

\* C18: /pregunta without a date uses the latest date among the usable
\* rows of the index (scope normativo) or among the news rows (scope
\* noticias); when there is none it answers the cannot-determine-date
\* error, having built no context and called no model; a date in the
\* request is used unchanged.
C18_ResolucionDeFecha ==
    (resp.op = "pregunta" /\ consulta.pregunta # "") =>
        IF consulta.fecha # "" THEN resp.fecha_usada = consulta.fecha
        ELSE LET fechas == IF resp.tipo = "normativo" THEN FechasUsables
                           ELSE FechasNoticias
             IN  IF fechas = {}
                   THEN /\ resp.codigo = 400
                        /\ resp.cuerpo = SoloError(SinFecha)
                        /\ resp.contexto = ""
                        /\ resp.llamadas = 0
                   ELSE resp.fecha_usada = Strftime(Maximo(fechas))

\* the request carries the parameters its route requires
PeticionCompleta ==
    /\ consulta.op \in {"resumen_diarios", "resumen_noticias",
                        "jurisdicciones_disponibles", "do_pdfs"}
          => consulta.fecha # ""
    /\ consulta.op = "do_pdfs" => consulta.jurisdiccion # ""
    /\ consulta.op = "pregunta" => consulta.pregunta # ""

\* the file the request reads cannot be read
AlmacenIlegible ==
    IF consulta.op = "resumen_noticias"
         \/ (consulta.op = "pregunta" /\ resp.tipo = "noticias")
      THEN noticias.estado # "legible"
      ELSE estadoIndice # "legible"

\* what the caller receives for the same request when both files can be
\* read and hold no row
RespuestaSinDatos ==
    CASE consulta.op = "resumen_diarios" ->
           ResumenDiariosRuta("legible", <<>>, SinArchivos, consulta.fecha,
                              consulta.jurisdiccion, {}, "ok")
      [] consulta.op = "resumen_noticias" ->
           ResumenNoticiasRuta(SinNoticias, consulta.fecha, "ok")
      [] consulta.op = "jurisdicciones_disponibles" ->
           JurisdiccionesDisponiblesRuta("legible", <<>>, consulta.fecha)
      [] consulta.op = "do_pdfs" ->
           DoPdfsRuta("legible", <<>>, consulta.fecha, consulta.jurisdiccion)
      [] OTHER ->
           Pregunta("legible", <<>>, SinArchivos, SinNoticias,
                    consulta.pregunta, consulta.fecha, "ok")

RutasDeLectura ==
    {"resumen_diarios", "resumen_noticias", "jurisdicciones_disponibles",
     "do_pdfs", "pregunta"}

\* C19: when the file a route reads is missing or lacks a column, what the
\* caller receives differs from what it receives when the file can be read
\* and holds no data.
C19_ErrorDistinguible ==
    (resp.op \in RutasDeLectura /\ PeticionCompleta /\ AlmacenIlegible) =>
        <<resp.codigo, resp.cuerpo>>
            # <<RespuestaSinDatos.codigo, RespuestaSinDatos.cuerpo>>

\* the rows of the index that carry one of the ids
FilasConId(ids) == {disk[i] : i \in {k \in 1..Len(disk) : disk[k].id \in ids}}

EsRaw(f) == Lower(Strip(f.status)) = "raw"

\* C20: no query returns a row whose status is raw: not the documents of
\* /do_pdfs, not the sources of /pregunta, not the file of /descargar_pdf.
C20_NuncaRaw ==
    /\ (resp.op = "descargar_pdf" /\ resp.codigo = 200) =>
          \A f \in FilasConId({consulta.id}) : ~EsRaw(f)
    /\ (resp.op = "do_pdfs" /\ resp.codigo = 200) =>
          \A f \in FilasConId({resp.cuerpo.documentos[i].id :
                                 i \in 1..Len(resp.cuerpo.documentos)}) :
              ~EsRaw(f)
    /\ (resp.op = "pregunta" /\ resp.codigo = 200
          /\ resp.tipo = "normativo") =>
          \A f \in FilasConId(Elementos(resp.cuerpo.fuentes)) : ~EsRaw(f)

\* ------------------------------------------------------------------------
\* preprocesar_diarios.py: runs of several processes on one index, the
\* summary file written in two steps, and a reader of the index
\* ------------------------------------------------------------------------
\* df = pd.read_csv(DO_INDEX_CSV) at the start of a run: the file as it is
\* then, whatever the index first held
LeerIndiceInicial(archivo, inicial) == LeerCsv(inicial)

LeerAlIniciar(archivo, inicial) == LeerCsv(archivo)

\* completion.choices[0].message.content.strip(): a digest, or nothing
ResumenesPosibles(fila) == {ResumenDe(fila), ""}

\* the text file an iteration writes before it summarizes
EscribirTexto(fs, fila) == (ArchivoTexto(fila) :> TextoDe(fila)) @@ fs

\* open(archivo_resumen, "w"): the file exists and is empty
AbrirParaEscribir(fs, ruta) == (ruta :> "") @@ fs

\* f.write(resumen) and the end of the with block
EscribirContenido(fs, ruta, resumen) == (ruta :> resumen) @@ fs

\* DO_INDEX_CSV while the summary of row i is being written: the loop body
\* does not open the index
IndiceConFilaMarcada(archivo, frame, i) ==
    EscribirCsv([frame EXCEPT ![i] = Marcar(frame[i])])

IndiceTrasAbrir(archivo, frame, i) == archivo

\* the other processes
Otras(p) == Corridas \ {p}

EnCurso(q) == corridas[q].pc \in {"loop", "escribiendo"}

\* the indexes of these runs: every summary_ready row has its summary_path
PlantillasIngesta == {"nueva", "lista", "legado"}

IndicesIngesta ==
    UNION {{[i \in 1..n |-> FilaInicial(i, ps[i])] :
              ps \in [1..n -> PlantillasIngesta]}
           : n \in 1..MaxDocs}

InitIngesta ==
    /\ disk \in IndicesIngesta
    /\ index0 = disk
    /\ disk0 = disk
    /\ df = <<>>
    /\ pc = "idle"
    /\ idx = 1
    /\ runs = 0
    /\ fin = "none"
    /\ resultado = [i \in 1..Len(disk) |-> "none"]
    /\ mismo = FALSE
    /\ escrituras = 0
    /\ intentados = {}
    /\ trans = {}
    /\ archivos = ArchivosDe(disk)
    /\ consulta = SinConsulta
    /\ resp = SinRespuesta
    /\ estadoIndice = "legible"
    /\ noticias = SinNoticias
    /\ InitOtros

varsLectura == <<consulta, resp>>

\* the file exists and has the expected columns: read it and enter the loop
IniciarCorrida(p) ==
    /\ corridas[p].pc = "idle"
    /\ corridas' = [corridas EXCEPT ![p] =
          [pc |-> "loop", df |-> LeerAlIniciar(disk, index0), idx |-> 1,
           leido |-> disk, marcadas |-> {}]]
    /\ solape' = (solape \/ \E q \in Otras(p) : EnCurso(q))
    /\ UNCHANGED <<disk, archivos, enEscritura, perdidas, varsLectura,
                   varsRun, varsAlmacen, varsWorker>>

\* the row is already processed: continue
SaltarFila(p) ==
    LET c == corridas[p]
    IN  /\ c.pc = "loop"
        /\ c.idx <= Len(c.df)
        /\ YaProcesado(c.df[c.idx])
        /\ corridas' = [corridas EXCEPT ![p].idx = c.idx + 1]
        /\ UNCHANGED <<disk, archivos, enEscritura, solape, perdidas,
                       varsLectura, varsRun, varsAlmacen, varsWorker>>

\* a step of the iteration fails and its except clause continues
FallarFila(p) ==
    LET c == corridas[p]
    IN  /\ c.pc = "loop"
        /\ c.idx <= Len(c.df)
        /\ ~YaProcesado(c.df[c.idx])
        /\ \E res \in Resultados \ {"ok"} :
              /\ Iterar(c.df[c.idx], res).sigue
              /\ archivos' = EscribirArchivos(archivos, c.df[c.idx], res)
              /\ corridas' =
                    [corridas EXCEPT ![p].idx = c.idx + 1,
                                     ![p].df[c.idx] = Iterar(c.df[c.idx], res).fila]
        /\ UNCHANGED <<disk, enEscritura, solape, perdidas, varsLectura,
                       varsRun, varsAlmacen, varsWorker>>

\* an exception leaves the loop and procesar_diarios: nothing is written
AbortarCorrida(p) ==
    LET c == corridas[p]
    IN  /\ c.pc = "loop"
        /\ c.idx <= Len(c.df)
        /\ ~YaProcesado(c.df[c.idx])
        /\ \E res \in Resultados \ {"ok"} :
              /\ ~Iterar(c.df[c.idx], res).sigue
              /\ archivos' = EscribirArchivos(archivos, c.df[c.idx], res)
        /\ corridas' = [corridas EXCEPT ![p].pc = "fin"]
        /\ UNCHANGED <<disk, enEscritura, solape, perdidas, varsLectura,
                       varsRun, varsAlmacen, varsWorker>>

\* extraction, the text file and the summarization succeed, and the
\* summary file is opened for writing
AbrirResumen(p) ==
    LET c == corridas[p]
        fila == c.df[c.idx]
    IN  /\ c.pc = "loop"
        /\ c.idx <= Len(c.df)
        /\ ~YaProcesado(fila)
        /\ archivos' =
              AbrirParaEscribir(EscribirTexto(archivos, fila), ArchivoResumen(fila))
        /\ enEscritura' = enEscritura \cup {ArchivoResumen(fila)}
        /\ corridas' = [corridas EXCEPT ![p].pc = "escribiendo"]
        /\ disk' = IndiceTrasAbrir(disk, c.df, c.idx)
        /\ UNCHANGED <<solape, perdidas, varsLectura, varsRun, varsAlmacen,
                       varsWorker>>

\* f.write(resumen), the file is closed and the row is marked in the frame;
\* or the write raises and the except clause continues
EscribirResumen(p) ==
    LET c == corridas[p]
        fila == c.df[c.idx]
        ruta == ArchivoResumen(fila)
    IN  /\ c.pc = "escribiendo"
        /\ \/ \E resumen \in ResumenesPosibles(fila) :
                /\ archivos' = EscribirContenido(archivos, ruta, resumen)
                /\ corridas' =
                      [corridas EXCEPT ![p].pc = "loop",
                                       ![p].idx = c.idx + 1,
                                       ![p].df[c.idx] = Iterar(fila, "ok").fila,
                                       ![p].marcadas = c.marcadas \cup {c.idx}]
           \/ /\ archivos' = archivos
              /\ corridas' =
                    [corridas EXCEPT
                        ![p].pc = "loop",
                        ![p].idx = c.idx + 1,
                        ![p].df[c.idx] =
                            Iterar(fila, "guardar_resumen_lanza").fila]
        /\ enEscritura' = enEscritura \ {ruta}
        /\ UNCHANGED <<disk, solape, perdidas, varsLectura, varsRun,
                       varsAlmacen, varsWorker>>

\* after the last row: df.to_csv(DO_INDEX_CSV, index=False)
GuardarIndice(p) ==
    LET c == corridas[p]
    IN  /\ c.pc = "loop"
        /\ c.idx > Len(c.df)
        /\ disk' = EscribirCsv(c.df)
        /\ perdidas' =
              perdidas \cup
                {i \in 1..Len(disk) :
                    /\ Lower(Strip(disk[i].status)) = "summary_ready"
                    /\ Lower(Strip(disk'[i].status)) # "summary_ready"}
        /\ corridas' = [corridas EXCEPT ![p].pc = "fin"]
        /\ UNCHANGED <<archivos, enEscritura, solape, varsLectura, varsRun,
                       varsAlmacen, varsWorker>>

\* a reader loads the rows of the day and builds their context while the
\* runs go on; it notes the summary files that exist and those being written
LeerDuranteIngesta ==
    /\ consulta.op = "none"
    /\ \E f \in {"2026-01-01"} :
          /\ consulta' = [op |-> "contexto_del_dia", fecha |-> f]
          /\ resp' = [op |-> "contexto_del_dia",
                      filas |-> CargarDiarios(disk, f),
                      contexto |->
                          ConstruirContexto(CargarDiarios(disk, f), archivos),
                      presentes |-> DOMAIN archivos,
                      abiertos |-> enEscritura]
    /\ UNCHANGED <<disk, archivos, varsRun, varsAlmacen, varsOtros>>

\* the caller serializes the runs: one starts when no other is in its loop
IniciarEnSerie(p) ==
    /\ \A q \in Otras(p) : ~EnCurso(q)
    /\ IniciarCorrida(p)

\* runs in series, and a reader at any point of them
NextIngesta ==
    \/ \E p \in Corridas :
          \/ IniciarEnSerie(p)
          \/ SaltarFila(p)
          \/ FallarFila(p)
          \/ AbortarCorrida(p)
          \/ AbrirResumen(p)
          \/ EscribirResumen(p)
          \/ GuardarIndice(p)
    \/ LeerDuranteIngesta

SpecIngesta == InitIngesta /\ [][NextIngesta]_vars

\* runs that may overlap
NextSolape ==
    \E p \in Corridas :
        \/ IniciarCorrida(p)
        \/ SaltarFila(p)
        \/ FallarFila(p)
        \/ AbortarCorrida(p)
        \/ AbrirResumen(p)
        \/ EscribirResumen(p)
        \/ GuardarIndice(p)

SpecSolape == InitIngesta /\ [][NextSolape]_vars

\* C21: runs are safe only in series.  A row that a write of the index
\* committed as summary_ready is written back as raw by a later write only
\* when two runs overlapped: with runs that do not overlap no committed
\* transition is lost.
C21_SoloEnSerie == perdidas # {} => solape

\* the lost update: two runs overlapped, both have written the index, and a
\* row that the first write committed as summary_ready, its summary on
\* disk, is raw in the index the last write left
C21_Testigo ==
    /\ solape
    /\ \A p \in Corridas : corridas[p].pc = "fin"
    /\ \E i \in perdidas :
          /\ Lower(Strip(disk[i].status)) = "raw"
          /\ \E p \in Corridas :
                /\ i \in corridas[p].marcadas
                /\ corridas[p].df[i].summary_path \in DOMAIN archivos

\* the summary file at a path has been written and closed
ResumenEscrito(ruta) == ruta \in DOMAIN archivos /\ ruta \notin enEscritura

\* C26: at every point of the runs, a row that is summary_ready in the index
\* file has its summary file written at its summary_path, and a reader
\* never loads a row whose summary file is missing or still being written.
C26_ResumenAntesDelIndice ==
    /\ \A i \in 1..Len(disk) :
          (StatusListo(disk[i]) /\ Strip(disk[i].summary_path) # "") =>
              ResumenEscrito(disk[i].summary_path)
    /\ resp.op = "contexto_del_dia" =>
          \A k \in 1..Len(resp.filas) :
              RutaDe(resp.filas[k]) \in (resp.presentes \ resp.abiertos)

\* a reader loaded a row that a run committed while a later run was writing
\* the summary of another row
C26_Testigo ==
    /\ resp.op = "contexto_del_dia"
    /\ resp.abiertos # {}
    /\ \E k \in 1..Len(resp.filas) :
          \E i \in 1..Len(index0) :
              /\ index0[i].id = resp.filas[k].id
              /\ ~StatusListo(index0[i])

\* the summary file of a row of a frame holds text
ConTexto(fila) ==
    /\ fila.summary_path \in DOMAIN archivos
    /\ Strip(archivos[fila.summary_path]) # ""

\* C27: every row a run marks summary_ready has a summary file with
\* non-blank content, and so has every row the runs committed as
\* summary_ready; a reader finds the jurisdiction of every row it loads in
\* the context.
C27_ResumenNoVacio ==
    /\ \A p \in Corridas :
          EnCurso(p) => \A i \in corridas[p].marcadas : ConTexto(corridas[p].df[i])
    /\ \A i \in 1..Len(disk) :
          (StatusListo(disk[i]) /\ ~StatusListo(index0[i])) => ConTexto(disk[i])
    /\ resp.op = "contexto_del_dia" =>
          \A k \in 1..Len(resp.filas) :
              PyStr(resp.filas[k].jurisdiccion) \in Elementos(Claves(resp.contexto))

\* ------------------------------------------------------------------------
\* Frame and guard of procesar_diarios
\* ------------------------------------------------------------------------
CamposFijos(f) == <<f.id, f.fecha, f.jurisdiccion, f.pdf_path, f.created_at>>

\* C25: the frame of a run.  The index a run commits has the rows of the
\* index it read, in number and order, with id, fecha, jurisdiccion,
\* pdf_path and created_at of every row as they were; only the rows the run
\* processed with success differ, in text_path, summary_path and status;
\* until the commit the file is the one read.
C25_MarcoDeUnaCorrida ==
    /\ fin # "ok" => disk = disk0
    /\ fin = "ok" =>
          /\ Len(disk) = Len(disk0)
          /\ \A i \in 1..Len(disk) : CamposFijos(disk[i]) = CamposFijos(disk0[i])
          /\ \A i \in (1..Len(disk)) \ trans : disk[i] = disk0[i]

\* a run has committed one row it processed, next to a row it skipped
C25_Testigo ==
    /\ fin = "ok" /\ pc = "idle"
    /\ \E i \in trans : TresCampos(disk[i]) # TresCampos(disk0[i])
    /\ \E j \in (1..Len(disk)) \ intentados : disk[j] = disk0[j]

\* C28: the guard of the pipeline and the usable predicate of the read side
\* agree: a row that is usable in the index a run reads (a row without
\* status and with a summary_path included) is never attempted by the run.
C28_GuardaYUsable ==
    \A i \in intentados : ~Usable(disk0[i])

\* ------------------------------------------------------------------------
\* backend_dap.py: construir_contexto_por_tema
\* ------------------------------------------------------------------------
MaxBloques == 2     \* runs of rows of one topic in the news file

ORDEN_TEMATICO ==
    <<"industria_alimentaria", "cemento", "gas", "impuesto", "casinos",
      "movilidad", "seguridad", "agenda nacional">>

ColumnasNoticias == {"fecha", "titular", "termino", "enlace", "medio"}

\* pd.read_csv(NOTICIAS_DAP_CSV) on the rows of the file
LeerNoticias(filas) ==
    [i \in 1..Len(filas) |->
        [c \in ColumnasNoticias |-> LeerCelda(filas[i][c])]]

\* str.strip() on any text
RECURSIVE StripCadena(_)
StripCadena(s) ==
    IF s = "" THEN ""
    ELSE IF SubSeq(s, 1, 1) = " " THEN StripCadena(SubSeq(s, 2, Len(s)))
    ELSE IF SubSeq(s, Len(s), Len(s)) = " "
      THEN StripCadena(SubSeq(s, 1, Len(s) - 1))
    ELSE s

\* tema.replace(" ", "_")
RECURSIVE ReemplazarEspacios(_)
ReemplazarEspacios(t) ==
    IF t = "" THEN ""
    ELSE (IF SubSeq(t, 1, 1) = " " THEN "_" ELSE SubSeq(t, 1, 1))
            \o ReemplazarEspacios(SubSeq(t, 2, Len(t)))

\* list(noticias_dia["termino"].unique()): first appearances, in order
RECURSIVE Unicos(_, _)
Unicos(valores, vistos) ==
    IF valores = <<>> THEN <<>>
    ELSE IF Head(valores) \in vistos THEN Unicos(Tail(valores), vistos)
    ELSE <<Head(valores)>> \o Unicos(Tail(valores), vistos \cup {Head(valores)})

\* the two loops that fill temas_ordenados
TemasOrdenados(temas_presentes) ==
    LET Presente(t) == t \in Elementos(temas_presentes)
        fijos == SelectSeq(ORDEN_TEMATICO, Presente)
        Extra(t) == t \notin Elementos(fijos)
    IN  fijos \o SelectSeq(temas_presentes, Extra)

\* the inner loop over subset.iterrows(): a line for each title that is
\* not empty after strip()
RECURSIVE LineasDeTema(_, _)
LineasDeTema(subset, tema_norm) ==
    IF subset = <<>> THEN <<>>
    ELSE LET titulo == StripCadena(Head(subset).titular)
             resto == LineasDeTema(Tail(subset), tema_norm)
         IN  IF titulo # "" THEN <<tema_norm \o " :: " \o titulo>> \o resto
             ELSE resto

RECURSIVE LineasDeTemas(_, _)
LineasDeTemas(frame, temas) ==
    IF temas = <<>> THEN <<>>
    ELSE LET tema == Head(temas)
             DelTema(row) == row.termino = tema
             subset == Cabeza(SelectSeq(frame, DelTema), 10)
             tema_norm == Minusculas(ReemplazarEspacios(tema))
         IN  LineasDeTema(subset, tema_norm)
                 \o LineasDeTemas(frame, Tail(temas))

\* construir_contexto_por_tema(noticias_dia)
ConstruirContextoPorTema(noticias_dia) ==
    LET frame == [i \in 1..Len(noticias_dia) |->
                    [noticias_dia[i] EXCEPT
                        !.termino = PyStr(noticias_dia[i].termino),
                        !.titular = PyStr(noticias_dia[i].titular)]]
        temas_presentes ==
            Unicos([i \in 1..Len(frame) |-> frame[i].termino], {})
    IN  IF noticias_dia = <<>> THEN ""
        ELSE UnirLineas(LineasDeTemas(frame, TemasOrdenados(temas_presentes)))

\* the news files: runs of rows of one topic, one row or eleven, the first
\* title of a run plain, padded with spaces, of spaces only or blank
TemasNoticia == {"gas", "agenda nacional", "Otro Tema"}

TamanosBloque == {1, 11}

TiposTitular == {"llano", "con_espacios", "solo_espacios", "en_blanco"}

TitularDe(i, tipo) ==
    CASE tipo = "llano" -> "titular " \o ToString(i)
      [] tipo = "con_espacios" -> "  titular " \o ToString(i) \o " "
      [] tipo = "solo_espacios" -> "  "
      [] OTHER -> ""

\* the rows of a run that starts after `antes` rows
FilasDeBloque(b, antes) ==
    [k \in 1..b.n |->
        [fecha |-> "2026-01-01",
         titular |-> TitularDe(antes + k, IF k = 1 THEN b.tipo ELSE "llano"),
         termino |-> b.tema, enlace |-> "https://medio/nota",
         medio |-> "medio"]]

RECURSIVE FilasDeBloques(_, _)
FilasDeBloques(bs, antes) ==
    IF bs = <<>> THEN <<>>
    ELSE FilasDeBloque(Head(bs), antes)
            \o FilasDeBloques(Tail(bs), antes + Head(bs).n)

BloquesNoticia ==
    [tema : TemasNoticia, n : TamanosBloque, tipo : TiposTitular]

ArchivosDeTemas ==
    UNION {{FilasDeBloques(bs, 0) : bs \in [1..m -> BloquesNoticia]}
           : m \in 0..MaxBloques}

InitTemas ==
    /\ disk \in {<<FilaResumen(1, "DOF")>>}
    /\ index0 = disk
    /\ disk0 = disk
    /\ df = <<>>
    /\ pc = "idle"
    /\ idx = 1
    /\ runs = 0
    /\ fin = "none"
    /\ resultado = [i \in 1..Len(disk) |-> "none"]
    /\ mismo = FALSE
    /\ escrituras = 0
    /\ intentados = {}
    /\ trans = {}
    /\ archivos = ArchivosDe(disk)
    /\ consulta = SinConsulta
    /\ resp = SinRespuesta
    /\ estadoIndice = "legible"
    /\ \E filas \in ArchivosDeTemas :
          noticias = [estado |-> "legible", filas |-> filas]
    /\ InitOtros

\* the rows of a date are loaded and their context by topic is built
ContextoPorTema ==
    /\ consulta.op = "none"
    /\ \E f \in FechasConsulta :
          LET noticias_dia == LeerNoticias(CargarNoticiasDe(noticias, f).filas)
          IN  /\ consulta' = [op |-> "construir_contexto_por_tema", fecha |-> f]
              /\ resp' = [op |-> "construir_contexto_por_tema",
                          contexto |-> ConstruirContextoPorTema(noticias_dia)]
    /\ UNCHANGED <<disk, archivos, varsRun, varsAlmacen, varsOtros>>

NextTemas == ContextoPorTema

SpecTemas == InitTemas /\ [][NextTemas]_vars

\* the rows of the news file of the date asked for
NoticiasDelDia ==
    LET DelDia(row) == ParseFecha(row.fecha) = Strptime(consulta.fecha)
    IN  SelectSeq(noticias.filas, DelDia)

RECURSIVE Ascendente(_)
Ascendente(S) ==
    IF S = {} THEN <<>>
    ELSE LET m == CHOOSE x \in S : \A y \in S : x <= y
         IN  <<m>> \o Ascendente(S \ {m})

\* the topics of the rows: those of the preferred order first, in that
\* order, then the others by the position of their first row
OrdenDeTemas(regs) ==
    LET temas == {regs[i].termino : i \in 1..Len(regs)}
        Esta(t) == t \in temas
        PrimeraFila(t) ==
            CHOOSE i \in 1..Len(regs) :
                /\ regs[i].termino = t
                /\ \A j \in 1..(i - 1) : regs[j].termino # t
        otros == Ascendente({PrimeraFila(t) :
                               t \in temas \ Elementos(ORDEN_TEMATICO)})
    IN  SelectSeq(ORDEN_TEMATICO, Esta)
            \o [k \in 1..Len(otros) |-> regs[otros[k]].termino]

\* the lines of a topic: its first ten rows, those with a blank headline
\* skipped, each as topic :: headline
LineasEsperadas(regs, t) ==
    LET suyas == {i \in 1..Len(regs) : regs[i].termino = t}
        primeras ==
            {i \in suyas : Cardinality({j \in suyas : j < i}) < 10}
        conTitular ==
            Ascendente({i \in primeras : StripCadena(regs[i].titular) # ""})
    IN  [k \in 1..Len(conTitular) |->
            Minusculas(ReemplazarEspacios(t)) \o " :: "
                \o StripCadena(regs[conTitular[k]].titular)]

RECURSIVE Concatenar(_)
Concatenar(listas) ==
    IF listas = <<>> THEN <<>>
    ELSE Head(listas) \o Concatenar(Tail(listas))

\* C22: the context by topic is the sequence of lines of the topics in
\* order (preferred order first, then first appearance, each once), for
\* each topic its first ten rows at most in input order without the rows
\* whose headline is blank, each line being the normalized topic, " :: "
\* and the trimmed headline; no rows give the empty string.
C22_ContextoPorTema ==
    resp.op = "construir_contexto_por_tema" =>
        LET regs == NoticiasDelDia
            orden == OrdenDeTemas(regs)
        IN  resp.contexto =
                UnirLineas(Concatenar(
                    [k \in 1..Len(orden) |-> LineasEsperadas(regs, orden[k])]))

\* ------------------------------------------------------------------------
\* backend_dap.py: the dates listed and the jurisdictions of the summary
\* ------------------------------------------------------------------------
\* the usable rows of the index with a date, of the jurisdiction the
\* request names when it names one
UsablesConFecha ==
    {i \in 1..Len(disk) :
        /\ Usable(disk[i])
        /\ ParseFecha(disk[i].fecha) # NaT
        /\ \/ consulta.jurisdiccion = ""
           \/ Upper(Strip(disk[i].jurisdiccion))
                 = Upper(Strip(consulta.jurisdiccion))}

\* C23: the dates listed are the dates of the usable rows, of one
\* jurisdiction when the request names it, each once and in strictly
\* descending order; no date of raw rows only or of a malformed cell.
C23_FechasDisponibles ==
    resp.op = "do_fechas" =>
        /\ Elementos(resp.fechas) =
              {Strftime(ParseFecha(disk[i].fecha)) : i \in UsablesConFecha}
        /\ \A a, b \in 1..Len(resp.fechas) :
              a < b => Strptime(resp.fechas[a]) > Strptime(resp.fechas[b])
        /\ \A a \in 1..Len(resp.fechas) : Strptime(resp.fechas[a]) # NaT

\* C24: jurisdictions are compared without regard to case and shown in
\* upper case: with a filter for J the rows whose jurisdiction is J in any
\* case are the ones summarized, and without a filter every jurisdiction
\* with a context is summarized under its upper-case name.
C24_JurisdiccionSinCaja ==
    resp.op = "generar_resumen_diarios" =>
        LET pedida == Upper(Strip(consulta.jurisdiccion))
        IN  /\ (consulta.jurisdiccion # "" /\ pedida \in Disponibles) =>
                  resp.enviadas = <<pedida>>
            /\ consulta.jurisdiccion = "" =>
                  \A j \in Disponibles : j \in Elementos(resp.enviadas)

\* ------------------------------------------------------------------------
\* backend_dap.py: /pregunta about one jurisdiction, without a date
\* ------------------------------------------------------------------------
\* the jurisdiction the question names, "None" when it names none
JurisdiccionNombrada ==
    LET S == JurisdiccionesNombradas(consulta.pregunta)
    IN  IF S = {} THEN "None" ELSE TablaJurisdicciones[Primero(S)].jur

\* the usable rows of a jurisdiction whose summary file holds text
UsablesDe(j) ==
    {i \in 1..Len(disk) :
        /\ Usable(disk[i])
        /\ ParseFecha(disk[i].fecha) # NaT
        /\ Upper(Strip(disk[i].jurisdiccion)) = j
        /\ disk[i].summary_path \in DOMAIN archivos
        /\ archivos[disk[i].summary_path] # Ilegible
        /\ Strip(archivos[disk[i].summary_path]) # ""}

\* C29: when the question names a jurisdiction J and carries no date, and
\* J has a usable row with a readable summary, the date resolved is a date
\* of usable rows of J, the context built is not empty and the reply is not
\* the no-content one.
C29_FechaDeLaJurisdiccion ==
    (/\ resp.op = "pregunta"
     /\ consulta.fecha = ""
     /\ estadoIndice = "legible"
     /\ JurisdiccionNombrada # "None"
     /\ UsablesDe(JurisdiccionNombrada) # {}) =>
        /\ \E i \in UsablesDe(JurisdiccionNombrada) :
              resp.fecha_usada = Strftime(ParseFecha(disk[i].fecha))
        /\ resp.contexto # ""
        /\ resp.codigo = 200 => resp.cuerpo.fuentes # <<>>

\* ------------------------------------------------------------------------
\* google_news_worker_dap_sarampion.py: alerts of the feed, sent once
\* ------------------------------------------------------------------------
MaxEntradas == 2    \* entries of the feed in one cycle
MaxCiclos == 2      \* calls of procesar_feed
MaxReinicios == 1   \* restarts of the worker

\* entry_id = f"sarampion_mx|{raw_id}"
EntryId(raw_id) == "sarampion_mx|" \o raw_id

\* an entry of the feed: its id or link ("None" when it has neither) and
\* its published_parsed against the limit of six hours
FechasEntrada == {"reciente", "vieja", "sin_fecha"}

Entradas == [id : IdsEntrada \cup {"None"}, fecha : FechasEntrada]

Feeds == UNION {[1..n -> Entradas] : n \in 0..MaxEntradas}

\* reversed(feed.entries)
Reverso(entradas) ==
    [i \in 1..Len(entradas) |-> entradas[Len(entradas) + 1 - i]]

\* telegram_send_message: requests.post delivers and the call returns; the
\* request is refused or never arrives and the call raises; or Telegram
\* delivers the message and the call raises all the same (the response
\* times out, or is not JSON)
ResultadosEnvio == {"entregado", "rechazado", "entregado_y_lanza"}

Entregado(envio) == envio \in {"entregado", "entregado_y_lanza"}

Devuelto(envio) == envio = "entregado"

\* guardar_visto(entry_id): the line is appended, or open/write raises
ResultadosGuardar == {"ok", "lanza"}

\* cargar_vistos(): the lines of the file that are not blank, stripped;
\* seen_ids stays the empty set of a new process when there is no file
CargarVistos(lineas) ==
    {StripCadena(lineas[i]) :
        i \in {k \in 1..Len(lineas) : StripCadena(lineas[k]) # ""}}

\* the entry is passed over before any send: no id, no date, too old, or
\* an id already in seen_ids
PasadaPorAlto(entry, vistos) ==
    \/ entry.id = "None"
    \/ entry.fecha # "reciente"
    \/ EntryId(entry.id) \in vistos

InitWorker ==
    /\ disk \in {<<FilaResumen(1, "DOF")>>}
    /\ index0 = disk
    /\ disk0 = disk
    /\ df = <<>>
    /\ pc = "idle"
    /\ idx = 1
    /\ runs = 0
    /\ fin = "none"
    /\ resultado = [i \in 1..Len(disk) |-> "none"]
    /\ mismo = FALSE
    /\ escrituras = 0
    /\ intentados = {}
    /\ trans = {}
    /\ archivos = ArchivosDe(disk)
    /\ consulta = SinConsulta
    /\ resp = SinRespuesta
    /\ estadoIndice = "legible"
    /\ noticias = SinNoticias
    /\ InitOtros

varsBackend ==
    <<disk, archivos, consulta, resp, varsRun, varsAlmacen, varsIngesta>>

\* procesar_feed() up to its loop: the feed is parsed; without entries the
\* call returns
RevisarFeed ==
    /\ pendientes = <<>>
    /\ ciclos < MaxCiclos
    /\ \E feed \in Feeds : pendientes' = Reverso(feed)
    /\ ciclos' = ciclos + 1
    /\ UNCHANGED <<seen_ids, seen_file, reinicios, entregas, exitos,
                   reenviados, varsBackend>>

\* an iteration that ends in a continue before the send
PasarEntrada ==
    /\ pendientes # <<>>
    /\ PasadaPorAlto(Head(pendientes), seen_ids)
    /\ pendientes' = Tail(pendientes)
    /\ UNCHANGED <<seen_ids, seen_file, ciclos, reinicios, entregas, exitos,
                   reenviados, varsBackend>>

\* an iteration that sends: when the call returns the id is added to
\* seen_ids and appended to the file, and an exception of guardar_visto
\* leaves procesar_feed; when the call raises the loop continues
EnviarAlerta ==
    /\ pendientes # <<>>
    /\ ~PasadaPorAlto(Head(pendientes), seen_ids)
    /\ LET e == Head(pendientes).id
       IN  \E envio \in ResultadosEnvio, g \in ResultadosGuardar :
             /\ entregas' =
                   [entregas EXCEPT ![e] = @ + (IF Entregado(envio) THEN 1 ELSE 0)]
             /\ exitos' =
                   [exitos EXCEPT ![e] = @ + (IF Devuelto(envio) THEN 1 ELSE 0)]
             /\ reenviados' =
                   IF EntryId(e) \in seen_ids THEN reenviados \cup {e}
                   ELSE reenviados
             /\ seen_ids' =
                   IF Devuelto(envio) THEN seen_ids \cup {EntryId(e)}
                   ELSE seen_ids
             /\ seen_file' =
                   IF Devuelto(envio) /\ g = "ok"
                     THEN Append(seen_file, EntryId(e))
                     ELSE seen_file
             /\ pendientes' =
                   IF Devuelto(envio) /\ g = "lanza" THEN <<>>
                   ELSE Tail(pendientes)
    /\ UNCHANGED <<ciclos, reinicios, varsBackend>>

\* the worker is stopped and started again: cargar_vistos()
Reiniciar ==
    /\ reinicios < MaxReinicios
    /\ reinicios' = reinicios + 1
    /\ seen_ids' = CargarVistos(seen_file)
    /\ pendientes' = <<>>
    /\ UNCHANGED <<seen_file, ciclos, entregas, exitos, reenviados,
                   varsBackend>>

NextWorker == RevisarFeed \/ PasarEntrada \/ EnviarAlerta \/ Reiniciar

SpecWorker == InitWorker /\ [][NextWorker]_vars

\* C30: over the cycles and the restarts no alert is delivered twice; an id
\* is in seen_ids or in the seen file only after a send of it returned, and
\* no id is sent while it is in seen_ids.
C30_AlertaUnaVez ==
    /\ \A e \in IdsEntrada : entregas[e] <= 1
    /\ \A e \in IdsEntrada :
          EntryId(e) \in (seen_ids \cup Elementos(seen_file)) => exitos[e] >= 1
    /\ reenviados = {}
====
